---- MODULE Spec2Model ----
(***************************************************************************)
(* Multi-track playback engine of spine-viewer.                            *)
(*                                                                         *)
(* The model covers the persistent model (MultiTrackSequence,              *)
(* AnimationTrack, AnimationSlot), the PlaybackController (the ensemble-   *)
(* aligned scheduler) and the host frame scheduler                         *)
(* (requestAnimationFrame / cancelAnimationFrame).                         *)
(*                                                                         *)
(* Conventions                                                             *)
(*   - times are milliseconds, all multiples of the host frame grid;       *)
(*   - JavaScript null / undefined numbers are the sentinel Null;          *)
(*   - a slot's empty animation reference (null) is NoAnim;                *)
(*   - slot and track positions keep the 0-based values of the source,     *)
(*     sequences are accessed at position + 1;                             *)
(*   - an operation that throws keeps the assignments it made before the   *)
(*     throw; XThrows says when call X throws, XEvents what it dispatches. *)
(***************************************************************************)
EXTENDS Integers, Sequences, FiniteSets, TLC

\* ------------------------------------------------------------------ bounds
MaxTracks == 2          \* tracks a sequence may hold (options.maxTracks)
MaxSlots == 2           \* slots a track may hold (AnimationTrack._maxSlots)
MaxTrackIds == 2        \* tracks ever created (identities are never reused)
MaxClock == 1500        \* last host timestamp explored
MaxScenarioClock == 3000 \* the same, for the scenario of two prepared tracks

\* --------------------------------------------------------------- constants
Null == -1
NoAnim == "null"
Anims == {"walk", "run"}
Deltas == {0, 500}
FrameDeltas == {500}
ScenarioDeltas == {0, 250, 500, 1000}
Speeds == {1, 2}
BadSpeeds == {0, -1}

VARIABLES
  tracks,                 \* MultiTrackSequence._tracks
  nextTrackId,            \* next fresh track identity
  trackCounter,           \* AnimationTrack.#trackCounter
  isPlaying,              \* PlaybackController.isPlaying
  isPaused,               \* PlaybackController.isPaused
  rafId,                  \* PlaybackController.rafId
  lastTimestamp,          \* PlaybackController.lastTimestamp
  elapsedTime,            \* PlaybackController.elapsedTime
  cycleStartTime,         \* PlaybackController.cycleStartTime
  longestAnimationDuration, \* PlaybackController.longestAnimationDuration
  trackStates,            \* PlaybackController.trackStates
  pauseAfterNextFrame,    \* PlaybackController._pauseAfterNextFrame
  savedTimeScale,         \* PlaybackController._savedTimeScale
  timeScale,              \* spineViewer.spine.state.timeScale
  trackEntries,           \* spineViewer.spine.state.tracks: time scale of each entry
  playbackState,          \* MultiTrackSequence._playbackState
  pending,                \* host: frame callbacks registered and not yet run
  clock,                  \* host: timestamp of the latest frame
  pauseElapsed            \* elapsedTime at the last pause() not yet followed by a tick

modelVars == <<tracks, nextTrackId, trackCounter>>
engineVars == <<isPlaying, isPaused, rafId, lastTimestamp, elapsedTime,
                cycleStartTime, longestAnimationDuration, trackStates,
                pauseAfterNextFrame, savedTimeScale, pauseElapsed>>
hostVars == <<pending, clock>>
vars == <<tracks, nextTrackId, isPlaying, isPaused, rafId, lastTimestamp,
          elapsedTime, cycleStartTime, longestAnimationDuration, trackStates,
          pauseAfterNextFrame, savedTimeScale, timeScale, trackEntries, pending,
          clock, pauseElapsed, playbackState, trackCounter>>

\* ----------------------------------------------------------------- helpers
Max(a, b) == IF a >= b THEN a ELSE b

Min(S) == CHOOSE n \in S : \A m \in S : n <= m

Ev(type, track, prev, cur) ==
  [type |-> type, track |-> track, prev |-> prev, cur |-> cur]

\* AnimationSlot: constructor(index, animation)
AnimationSlot(index, animation) ==
  [index |-> index, animation |-> animation, isPlaying |-> FALSE]

\* AnimationSlot: get isEmpty
isEmpty(slot) == slot.animation = NoAnim

\* AnimationSlot.stop(): nothing when already stopped
slotStop(slot) == [slot EXCEPT !.isPlaying = FALSE]

\* the event of AnimationSlot.stop()
slotStopEvents(slot) ==
  IF ~slot.isPlaying THEN <<>>
  ELSE <<Ev("playback-stopped", slot.index, slot.index, slot.index)>>

\* a slot that keeps playing while its animation is replaced
slotSetAnimationWithoutStop(slot, name) == [slot EXCEPT !.animation = name]

\* AnimationSlot.setAnimation(name): stop() when playing, then the assignment
slotSetAnimation(slot, name) ==
  [(IF slot.isPlaying THEN slotStop(slot) ELSE slot) EXCEPT !.animation = name]

\* the events of AnimationSlot.setAnimation(name), in dispatch order
slotSetAnimationEvents(slot, name) ==
  (IF slot.isPlaying THEN slotStopEvents(slot) ELSE <<>>)
  \o <<Ev(IF name = NoAnim THEN "animation-cleared" ELSE "animation-set",
          slot.index, slot.index, slot.index)>>

\* AnimationSlot.play(): 'Cannot play empty slot'
slotPlayThrows(slot) == isEmpty(slot)

\* AnimationSlot.play() on a slot that holds an animation
slotPlay(slot) == [slot EXCEPT !.isPlaying = TRUE]

\* the event of AnimationSlot.play()
slotPlayEvents(slot) ==
  IF slotPlayThrows(slot) \/ slot.isPlaying THEN <<>>
  ELSE <<Ev("playback-started", slot.index, slot.index, slot.index)>>

\* names are strings of characters; the decimal digits of a template literal,
\* for the counters below ten that the bounded model reaches
DigitChars == <<"1", "2", "3", "4", "5", "6", "7", "8", "9">>

\* AnimationTrack: the generated name `Track ${counter}`
autoName(counter) == <<"T", "r", "a", "c", "k", " ", DigitChars[counter]>>

\* AnimationTrack: constructor -- a new track has no slot
AnimationTrack(id, name) ==
  [id |-> id, name |-> name, slots |-> <<>>, currentSlotIndex |-> 0]

\* AnimationTrack.getSlot returns null outside [0, length)
HasSlot(track, index) == index >= 0 /\ index < Len(track.slots)

getSlot(track, index) == track.slots[index + 1]

\* a track that leaves the slots' indices as they were
updateSlotIndicesSkipped(slots, startIndex) == slots

\* AnimationTrack._updateSlotIndices(startIndex)
updateSlotIndices(slots, startIndex) ==
  [p \in DOMAIN slots |->
     IF p - 1 >= startIndex THEN [slots[p] EXCEPT !.index = p - 1] ELSE slots[p]]

\* Array.prototype.splice(index, 0, x)
SpliceIn(s, index, x) ==
  SubSeq(s, 1, index) \o <<x>> \o SubSeq(s, index + 1, Len(s))

\* Array.prototype.splice(index, 1)
SpliceOut(s, index) ==
  SubSeq(s, 1, index) \o SubSeq(s, index + 2, Len(s))

\* AnimationTrack.setCurrentSlot(index), for an index in range
setCurrentSlot(track, index) == [track EXCEPT !.currentSlotIndex = index]

\* the event AnimationTrack.setCurrentSlot dispatches (none if unchanged); its
\* detail is {previousIndex, currentIndex}, the engine's own event of the same
\* name carries {previousSlot, currentSlot} and is "playback-position-changed"
setCurrentSlotEvents(track, index) ==
  IF track.currentSlotIndex = index THEN <<>>
  ELSE <<Ev("playback-position-changed/index", track.id, track.currentSlotIndex, index)>>

TrackIds(ts) == {ts[i].id : i \in DOMAIN ts}

TrackOf(ts, id) == ts[CHOOSE i \in DOMAIN ts : ts[i].id = id]

\* PlaybackController._getAnimationDuration: skeleton.data durations in ms,
\* 0 for no animation, 1000 when the lookup finds nothing
getAnimationDuration(name) ==
  IF name = NoAnim THEN 0
  ELSE IF name = "walk" THEN 1000
  ELSE IF name = "run" THEN 500
  ELSE IF name = "idle" THEN 2000
  ELSE 1000

\* host: the handle requestAnimationFrame returns; only its identity among the
\* callbacks still registered matters, so the smallest free handle is used
requestAnimationFrame(pend, held) ==
  Min({n \in 1..(Cardinality(pend) + 1) : n \notin pend})

\* a host that ignores the cancellation
cancelAnimationFrameIgnored(pend, id) == pend

\* host: cancelAnimationFrame(id)
cancelAnimationFrame(pend, id) == pend \ {id}

\* spine.state.tracks with no entry: nothing has been played, or clearTracks()
NoEntries == [k \in {} |-> 1]

\* SpineViewer.setAnimation(animationName, loop): whatever track index the
\* caller passes, the clip goes to render track 0, as a fresh entry whose
\* time scale is 1
setAnimation(entries) ==
  [k \in DOMAIN entries \cup {0} |-> IF k = 0 THEN 1 ELSE entries[k]]

\* the animations of the loaded skeleton; spine.state.setAnimation throws
\* for any other name
SkeletonAnimations == {"walk", "run", "idle"}

\* PlaybackController._playSlotAnimation(track, index, slot); an error of
\* the collaborator is caught and logged, and leaves the entries as they were
playSlotAnimation(entries, slot) ==
  IF slot.animation = NoAnim THEN entries
  ELSE IF slot.animation \notin SkeletonAnimations THEN entries
  ELSE setAnimation(entries)

\* `const trackEntry = state.tracks[index]; if (trackEntry) trackEntry.timeScale = s`
setEntryTimeScale(entries, index, scale) ==
  IF index \in DOMAIN entries THEN [entries EXCEPT ![index] = scale] ELSE entries

\* `this.sequence.playbackState.isPlaying = a; ....isPaused = b` as the engine
\* writes them: the getter `get playbackState() { return { ...this._playbackState } }`
\* hands out a copy, so the assignments change the copy and _playbackState
\* is what it was
assignThroughGetter(state, a, b) == state

\* ---------------------------------------------------------------------- Init
Init ==
  /\ tracks = <<>>
  /\ nextTrackId = 1
  /\ trackCounter = 0
  /\ isPlaying = FALSE
  /\ isPaused = FALSE
  /\ rafId = Null
  /\ lastTimestamp = Null
  /\ elapsedTime = 0
  /\ cycleStartTime = Null
  /\ longestAnimationDuration = Null
  /\ trackStates = <<>>
  /\ pauseAfterNextFrame = FALSE
  /\ savedTimeScale = Null
  /\ timeScale = 1
  /\ trackEntries = NoEntries
  /\ playbackState = [isPlaying |-> FALSE, isPaused |-> FALSE]
  /\ pending = {}
  /\ clock = 0
  /\ pauseElapsed = Null

\* ------------------------------------------------- persistent model actions
\* MultiTrackSequence.addTrack: 'Maximum tracks exceeded'
AddTrackThrows == Len(tracks) >= MaxTracks

\* MultiTrackSequence.addTrack
AddTrack ==
  /\ nextTrackId <= MaxTrackIds
  /\ IF AddTrackThrows
     THEN UNCHANGED modelVars
     ELSE /\ tracks' = Append(tracks, AnimationTrack(nextTrackId, autoName(trackCounter + 1)))
          /\ nextTrackId' = nextTrackId + 1
          /\ trackCounter' = trackCounter + 1
  /\ UNCHANGED <<engineVars, hostVars, timeScale, trackEntries>>
  /\ UNCHANGED playbackState

\* a sequence that lets its last track go
RemoveTrackNeverThrows(i) == FALSE

\* MultiTrackSequence.removeTrack: 'Cannot remove last track'; the track is
\* named by its position, so 'Track not found' does not arise
RemoveTrackThrows(i) == Len(tracks) = 1

\* MultiTrackSequence.removeTrack(trackId), trackId of the track at position i
RemoveTrack(i) ==
  /\ i \in DOMAIN tracks
  /\ IF RemoveTrackThrows(i)
     THEN UNCHANGED modelVars
     ELSE /\ tracks' = SpliceOut(tracks, i - 1)
          /\ UNCHANGED <<nextTrackId, trackCounter>>
  /\ UNCHANGED <<engineVars, hostVars, timeScale, trackEntries>>
  /\ playbackState' = IF RemoveTrackThrows(i) THEN playbackState
                    ELSE [playbackState EXCEPT !.isPlaying = FALSE]

\* -------------------------------------------------------------- TrackManager
\* TrackManager.MAX_NAME_LENGTH
MAX_NAME_LENGTH == 50

\* String.prototype.trim over the one whitespace character of the model
RECURSIVE trimStart(_)
trimStart(name) ==
  IF name # <<>> /\ Head(name) = " " THEN trimStart(Tail(name)) ELSE name

RECURSIVE trimEnd(_)
trimEnd(name) ==
  IF name # <<>> /\ name[Len(name)] = " "
  THEN trimEnd(SubSeq(name, 1, Len(name) - 1)) ELSE name

trim(name) == trimEnd(trimStart(name))

\* String.prototype.toLowerCase over the letters of the model
lowerChar(c) ==
  IF c = "T" THEN "t" ELSE IF c = "A" THEN "a" ELSE c

toLowerCase(name) == [p \in DOMAIN name |-> lowerChar(name[p])]

\* the characters matched by [a-zA-Z0-9]
AlphaNumeric == {"T", "t", "r", "a", "A", "c", "k"} \cup {DigitChars[d] : d \in DOMAIN DigitChars}

\* TrackManager._isDuplicateName(name, excludeId); excludeId Null for none
isDuplicateName(name, excludeId) ==
  \E i \in DOMAIN tracks :
     /\ ~(excludeId # Null /\ tracks[i].id = excludeId)
     /\ toLowerCase(tracks[i].name) = toLowerCase(name)

\* TrackManager.validateTrackName(name, excludeId)
validateTrackName(name, excludeId) ==
  IF name = <<>> THEN FALSE
  ELSE LET trimmed == trim(name)
       IN  IF trimmed = <<>> THEN FALSE
           ELSE IF \A p \in DOMAIN trimmed : trimmed[p] \notin AlphaNumeric THEN FALSE
           ELSE IF Len(trimmed) > MAX_NAME_LENGTH THEN FALSE
           ELSE ~isDuplicateName(trimmed, excludeId)

\* TrackManager.createTrack(name) fails: the name is refused, or the sequence
\* is full
CreateTrackThrows(name) ==
  ~validateTrackName(trim(name), Null) \/ AddTrackThrows

\* TrackManager.createTrack(name) with an explicit name; without one it is
\* MultiTrackSequence.addTrack(), the action AddTrack
CreateTrack(name) ==
  /\ nextTrackId <= MaxTrackIds
  /\ IF CreateTrackThrows(name)
     THEN UNCHANGED modelVars
     ELSE /\ tracks' = Append(tracks, AnimationTrack(nextTrackId, trim(name)))
          /\ nextTrackId' = nextTrackId + 1
          /\ UNCHANGED trackCounter
  /\ UNCHANGED <<engineVars, hostVars, timeScale, trackEntries>>
  /\ UNCHANGED playbackState

\* TrackManager.renameTrack(trackId, newName) fails; the track is named by
\* its position, so 'Track not found' does not arise
RenameTrackThrows(i, newName) == ~validateTrackName(trim(newName), tracks[i].id)

\* TrackManager.renameTrack(trackId, newName) with AnimationTrack.rename
RenameTrack(i, newName) ==
  /\ i \in DOMAIN tracks
  /\ IF RenameTrackThrows(i, newName)
     THEN UNCHANGED tracks
     ELSE tracks' = [tracks EXCEPT ![i].name = trim(trim(newName))]
  /\ UNCHANGED <<nextTrackId, trackCounter, engineVars, hostVars, timeScale, trackEntries>>
  /\ UNCHANGED playbackState

\* TrackManager.deleteTrack(trackId)
DeleteTrack(i) == RemoveTrack(i)

\* AnimationTrack.addSlot: 'Maximum slots exceeded', 'Invalid slot index'
AddSlotThrows(track, index) ==
  Len(track.slots) >= MaxSlots \/ index < 0 \/ index > Len(track.slots)

\* the track after AnimationTrack.addSlot(animation, index) has inserted
addSlot(track, animation, index) ==
  [track EXCEPT !.slots =
     updateSlotIndices(SpliceIn(@, index, AnimationSlot(index, animation)), index)]

\* AnimationTrack.addSlot(animation, index) on the track at position i
AddSlot(i, animation, index) ==
  /\ i \in DOMAIN tracks
  /\ IF AddSlotThrows(tracks[i], index)
     THEN UNCHANGED tracks
     ELSE tracks' = [tracks EXCEPT ![i] = addSlot(@, animation, index)]
  /\ UNCHANGED <<nextTrackId, trackCounter, engineVars, hostVars, timeScale, trackEntries>>
  /\ UNCHANGED playbackState

\* a track that refuses a removal only for its index
RemoveSlotThrowsOnIndexOnly(track, index) == index < 0 \/ index >= Len(track.slots)

\* AnimationTrack.removeSlot: 'Cannot remove last slot', 'Invalid slot index'
RemoveSlotThrows(track, index) ==
  Len(track.slots) = 1 \/ index < 0 \/ index >= Len(track.slots)

\* the track after AnimationTrack.removeSlot(index) has removed
removeSlot(track, index) ==
  [track EXCEPT !.slots = updateSlotIndices(SpliceOut(@, index), index)]

\* AnimationTrack.removeSlot(index)
RemoveSlot(i, index) ==
  /\ i \in DOMAIN tracks
  /\ IF RemoveSlotThrows(tracks[i], index)
     THEN UNCHANGED tracks
     ELSE tracks' = [tracks EXCEPT ![i] = removeSlot(@, index)]
  /\ UNCHANGED <<nextTrackId, trackCounter, engineVars, hostVars, timeScale, trackEntries>>
  /\ UNCHANGED playbackState

\* AnimationTrack.moveSlot: 'Invalid slot indices'
MoveSlotThrows(track, fromIndex, toIndex) ==
  \/ fromIndex < 0 \/ fromIndex >= Len(track.slots)
  \/ toIndex < 0 \/ toIndex >= Len(track.slots)

\* AnimationTrack.moveSlot(fromIndex, toIndex)
MoveSlot(i, fromIndex, toIndex) ==
  /\ i \in DOMAIN tracks
  /\ IF MoveSlotThrows(tracks[i], fromIndex, toIndex) \/ fromIndex = toIndex
     THEN UNCHANGED tracks
     ELSE tracks' = [tracks EXCEPT ![i].slots =
            updateSlotIndices(SpliceIn(SpliceOut(@, fromIndex), toIndex, @[fromIndex + 1]), 0)]
  /\ UNCHANGED <<nextTrackId, trackCounter, engineVars, hostVars, timeScale, trackEntries>>
  /\ UNCHANGED playbackState

\* AnimationTrack.setAnimation(slotIndex, animationName); throws
\* 'Invalid slot index' when getSlot returns null
SetAnimation(i, slotIndex, animationName) ==
  /\ i \in DOMAIN tracks
  /\ IF ~HasSlot(tracks[i], slotIndex)
     THEN UNCHANGED tracks
     ELSE tracks' = [tracks EXCEPT ![i].slots[slotIndex + 1] = slotSetAnimation(@, animationName)]
  /\ UNCHANGED <<nextTrackId, trackCounter, engineVars, hostVars, timeScale, trackEntries>>
  /\ UNCHANGED playbackState

\* AnimationSlot.play() on the slot at slotIndex of the track at position i
SlotPlay(i, slotIndex) ==
  /\ i \in DOMAIN tracks
  /\ HasSlot(tracks[i], slotIndex)
  /\ IF slotPlayThrows(getSlot(tracks[i], slotIndex))
     THEN UNCHANGED tracks
     ELSE tracks' = [tracks EXCEPT ![i].slots[slotIndex + 1] = slotPlay(@)]
  /\ UNCHANGED <<nextTrackId, trackCounter, engineVars, hostVars, timeScale, trackEntries>>
  /\ UNCHANGED playbackState

\* AnimationSlot.stop() on the slot at slotIndex of the track at position i
SlotStop(i, slotIndex) ==
  /\ i \in DOMAIN tracks
  /\ HasSlot(tracks[i], slotIndex)
  /\ tracks' = [tracks EXCEPT ![i].slots[slotIndex + 1] = slotStop(@)]
  /\ UNCHANGED <<nextTrackId, trackCounter, engineVars, hostVars, timeScale, trackEntries>>
  /\ UNCHANGED playbackState

\* AnimationSlot.setAnimation(name) called on the slot itself
SlotSetAnimation(i, slotIndex, name) ==
  /\ i \in DOMAIN tracks
  /\ HasSlot(tracks[i], slotIndex)
  /\ tracks' = [tracks EXCEPT ![i].slots[slotIndex + 1] = slotSetAnimation(@, name)]
  /\ UNCHANGED <<nextTrackId, trackCounter, engineVars, hostVars, timeScale, trackEntries>>
  /\ UNCHANGED playbackState

\* AnimationTrack.setCurrentSlot: 'Invalid slot index', tested before the
\* comparison with the current index
SetCurrentSlotThrows(track, index) == index < 0 \/ index >= Len(track.slots)

\* AnimationTrack.setCurrentSlot(index) called on the track at position i
SetCurrentSlot(i, index) ==
  /\ i \in DOMAIN tracks
  /\ IF SetCurrentSlotThrows(tracks[i], index)
     THEN UNCHANGED tracks
     ELSE tracks' = [tracks EXCEPT ![i] = setCurrentSlot(@, index)]
  /\ UNCHANGED <<nextTrackId, trackCounter, engineVars, hostVars, timeScale, trackEntries>>
  /\ UNCHANGED playbackState

\* the event AnimationTrack.addSlot dispatches, detail {slot, index}
AddSlotEvents(track, index) ==
  IF AddSlotThrows(track, index) THEN <<>>
  ELSE <<Ev("slot-added", track.id, index, index)>>

\* the event AnimationTrack.removeSlot dispatches, detail {index}
RemoveSlotEvents(track, index) ==
  IF RemoveSlotThrows(track, index) THEN <<>>
  ELSE <<Ev("slot-removed", track.id, index, index)>>

\* the event AnimationTrack.moveSlot dispatches, detail {fromIndex, toIndex}
MoveSlotEvents(track, fromIndex, toIndex) ==
  IF MoveSlotThrows(track, fromIndex, toIndex) \/ fromIndex = toIndex THEN <<>>
  ELSE <<Ev("slot-moved", track.id, fromIndex, toIndex)>>

\* the events of AnimationTrack.setAnimation: the slot's own
\* animation-cleared or animation-set, then the track's animation-changed
SetAnimationEvents(track, slotIndex, animationName) ==
  IF ~HasSlot(track, slotIndex) THEN <<>>
  ELSE << Ev(IF animationName = NoAnim THEN "animation-cleared" ELSE "animation-set",
             track.id, slotIndex, slotIndex),
          Ev("animation-changed", track.id, slotIndex, slotIndex) >>

\* the event the action SetCurrentSlot dispatches
SetCurrentSlotEvents(track, index) ==
  IF SetCurrentSlotThrows(track, index) THEN <<>>
  ELSE setCurrentSlotEvents(track, index)

\* ------------------------------------------------------------ engine helpers
SetMax(S) == CHOOSE n \in S : \A m \in S : n >= m

RECURSIVE Flatten(_)
Flatten(ss) == IF ss = <<>> THEN <<>> ELSE Head(ss) \o Flatten(Tail(ss))

\* position of the first track on which setCurrentSlot(0) throws (a track
\* without slot), Len + 1 when every track has a slot
FirstSlotless(ts) ==
  IF \E i \in DOMAIN ts : Len(ts[i].slots) = 0
  THEN Min({i \in DOMAIN ts : Len(ts[i].slots) = 0})
  ELSE Len(ts) + 1

\* the runtime-state record start() builds for a track
InitialState(track) ==
  [currentSlot |-> 0, slotStartTime |-> 0,
   animationDuration |-> getAnimationDuration(getSlot(track, 0).animation),
   isLooping |-> FALSE, isFrozen |-> FALSE]

\* the runtime-state record updateTrackPlayback builds for a track added
\* during playback
LazyState(track, globalTime) ==
  [currentSlot |-> 0, slotStartTime |-> globalTime,
   animationDuration |-> getAnimationDuration(getSlot(track, 0).animation),
   isLooping |-> FALSE, isFrozen |-> FALSE]

\* a search that takes the next slot whatever it holds
findNextSlotWhateverItHolds(track, startIndex) == (startIndex + 1) % Len(track.slots)

\* PlaybackController._findNextNonEmptySlot(track, startIndex)
findNextNonEmptySlot(track, startIndex) ==
  LET numSlots == Len(track.slots)
      found == {i \in 1..(numSlots - 1) :
                  ~isEmpty(getSlot(track, (startIndex + i) % numSlots))}
  IN IF found = {} THEN -1 ELSE (startIndex + Min(found)) % numSlots

\* a start() that does not ask whether the sequence has a track
StartRunsOnEmptySequence == ~isPlaying

\* start(): the calls that do something, and those that throw on the way
StartRuns == ~isPlaying /\ Len(tracks) # 0

StartThrows == StartRuns /\ FirstSlotless(tracks) <= Len(tracks)

\* start() and stop(): the tracks after the forEach that calls
\* setCurrentSlot(0), up to the track on which it throws
ResetTracks ==
  [i \in DOMAIN tracks |->
     IF i < FirstSlotless(tracks) THEN setCurrentSlot(tracks[i], 0) ELSE tracks[i]]

\* start(): the runtime states after the initialisation loop
StartStates ==
  LET done == {tracks[i].id : i \in 1..(FirstSlotless(tracks) - 1)}
  IN [id \in DOMAIN trackStates \cup done |->
        IF id \in done THEN InitialState(TrackOf(tracks, id)) ELSE trackStates[id]]

\* start(): what it dispatches
StartEvents ==
  IF ~StartRuns THEN <<>>
  ELSE Flatten([i \in 1..(FirstSlotless(tracks) - 1) |-> setCurrentSlotEvents(tracks[i], 0)])
         \o (IF StartThrows THEN <<>> ELSE <<Ev("playback-started", 0, 0, 0)>>)

\* a start() whose initialisation loop ends at the first clip the rendering
\* collaborator cannot play
RECURSIVE StartEntriesStoppingAtFailure(_, _)
StartEntriesStoppingAtFailure(i, entries) ==
  IF i >= FirstSlotless(tracks) THEN entries
  ELSE IF /\ ~isEmpty(getSlot(tracks[i], 0))
          /\ getSlot(tracks[i], 0).animation \notin SkeletonAnimations
  THEN entries
  ELSE StartEntriesStoppingAtFailure(
         i + 1, IF isEmpty(getSlot(tracks[i], 0)) THEN entries
                ELSE playSlotAnimation(entries, getSlot(tracks[i], 0)))

\* start(): the render entries after the initialisation loop, which plays
\* slot 0 of each track it reaches when that slot is not empty
RECURSIVE StartEntriesFrom(_, _)
StartEntriesFrom(i, entries) ==
  IF i >= FirstSlotless(tracks) THEN entries
  ELSE StartEntriesFrom(i + 1, IF isEmpty(getSlot(tracks[i], 0)) THEN entries
                               ELSE playSlotAnimation(entries, getSlot(tracks[i], 0)))

StartEntries(entries) == IF StartRuns THEN StartEntriesFrom(1, entries) ELSE entries

\* PlaybackController.start(), everything but the caller's bookkeeping
StartBody ==
  IF ~StartRuns
  THEN UNCHANGED <<tracks, isPlaying, isPaused, rafId, lastTimestamp, elapsedTime,
                   cycleStartTime, longestAnimationDuration, trackStates, pending,
                   pauseElapsed>>
  ELSE /\ isPlaying' = TRUE
       /\ isPaused' = FALSE
       /\ lastTimestamp' = Null
       /\ elapsedTime' = 0
       /\ cycleStartTime' = 0
       /\ pauseElapsed' = Null
       /\ tracks' = ResetTracks
       /\ trackStates' = StartStates
       /\ IF StartThrows
          THEN UNCHANGED <<longestAnimationDuration, rafId, pending>>
          ELSE /\ longestAnimationDuration' =
                    SetMax({0} \cup {StartStates[tracks[i].id].animationDuration : i \in DOMAIN tracks})
               /\ rafId' = requestAnimationFrame(pending, rafId)
               /\ pending' = pending \cup {requestAnimationFrame(pending, rafId)}

\* PlaybackController.start()
Start ==
  /\ StartBody
  /\ trackEntries' = StartEntries(trackEntries)
  /\ UNCHANGED <<nextTrackId, trackCounter, pauseAfterNextFrame, savedTimeScale, timeScale, clock>>
  /\ playbackState' = assignThroughGetter(playbackState, TRUE, FALSE)

\* stop(): the calls that do something, and those that throw on the way
StopRuns == isPlaying \/ isPaused

StopThrows == StopRuns /\ FirstSlotless(tracks) <= Len(tracks)

\* stop(): what it dispatches
StopEvents ==
  IF ~StopRuns THEN <<>>
  ELSE Flatten([i \in 1..(FirstSlotless(tracks) - 1) |-> setCurrentSlotEvents(tracks[i], 0)])
         \o (IF StopThrows THEN <<>> ELSE <<Ev("playback-stopped", 0, 0, 0)>>)

\* PlaybackController.stop()
Stop ==
  /\ IF ~StopRuns
     THEN UNCHANGED <<tracks, isPlaying, isPaused, rafId, pending, trackStates,
                      elapsedTime, lastTimestamp, pauseElapsed>>
     ELSE /\ isPlaying' = FALSE
          /\ isPaused' = FALSE
          /\ pending' = IF rafId # Null THEN cancelAnimationFrame(pending, rafId) ELSE pending
          /\ rafId' = Null
          /\ tracks' = ResetTracks
          /\ pauseElapsed' = Null
          /\ IF StopThrows
             THEN UNCHANGED <<trackStates, elapsedTime, lastTimestamp>>
             ELSE /\ trackStates' = <<>>
                  /\ elapsedTime' = 0
                  /\ lastTimestamp' = Null
  /\ trackEntries' = IF StopRuns /\ ~StopThrows THEN NoEntries ELSE trackEntries
  /\ UNCHANGED <<nextTrackId, trackCounter, cycleStartTime, longestAnimationDuration,
                 pauseAfterNextFrame, savedTimeScale, timeScale, clock>>
  /\ playbackState' = assignThroughGetter(playbackState, FALSE, FALSE)

\* a pause() that does not ask whether the engine is playing
PauseRunsUnguarded == ~isPaused

\* pause(): the calls that do something
PauseRuns == isPlaying /\ ~isPaused

\* pause(): what it dispatches
PauseEvents == IF PauseRuns THEN <<Ev("playback-paused", 0, 0, 0)>> ELSE <<>>

\* PlaybackController.pause(), everything but the caller's bookkeeping;
\* pend is the host's callback set at the time of the call
PauseBody(pend) ==
  /\ isPlaying' = FALSE
  /\ isPaused' = TRUE
  /\ pending' = IF rafId # Null THEN cancelAnimationFrame(pend, rafId) ELSE pend
  /\ rafId' = Null
  /\ savedTimeScale' = timeScale
  /\ timeScale' = 0

\* PlaybackController.pause()
Pause ==
  /\ IF ~PauseRuns
     THEN UNCHANGED <<isPlaying, isPaused, pending, rafId, savedTimeScale, timeScale,
                      pauseElapsed>>
     ELSE /\ PauseBody(pending)
          /\ pauseElapsed' = elapsedTime
  /\ UNCHANGED <<tracks, nextTrackId, trackCounter, lastTimestamp, elapsedTime, cycleStartTime,
                 longestAnimationDuration, trackStates, pauseAfterNextFrame, clock,
                 trackEntries>>
  /\ playbackState' = assignThroughGetter(playbackState, FALSE, TRUE)

\* resume(): what it dispatches
ResumeEvents == IF isPaused THEN <<Ev("playback-resumed", 0, 0, 0)>> ELSE <<>>

\* a resume() that keeps the timestamp of the last frame before the pause
ResumeBodyKeepingTimestamp ==
  /\ isPlaying' = TRUE
  /\ isPaused' = FALSE
  /\ lastTimestamp' = lastTimestamp
  /\ timeScale' = IF savedTimeScale = Null \/ savedTimeScale = 0 THEN 1 ELSE savedTimeScale
  /\ rafId' = requestAnimationFrame(pending, rafId)
  /\ pending' = pending \cup {requestAnimationFrame(pending, rafId)}

\* PlaybackController.resume(), everything but the caller's bookkeeping
ResumeBody ==
  /\ isPlaying' = TRUE
  /\ isPaused' = FALSE
  /\ lastTimestamp' = Null
  /\ timeScale' = IF savedTimeScale = Null \/ savedTimeScale = 0 THEN 1 ELSE savedTimeScale
  /\ rafId' = requestAnimationFrame(pending, rafId)
  /\ pending' = pending \cup {requestAnimationFrame(pending, rafId)}

\* PlaybackController.resume()
Resume ==
  /\ IF ~isPaused
     THEN UNCHANGED <<isPlaying, isPaused, lastTimestamp, timeScale, rafId, pending>>
     ELSE ResumeBody
  /\ UNCHANGED <<tracks, nextTrackId, trackCounter, elapsedTime, cycleStartTime, longestAnimationDuration,
                 trackStates, pauseAfterNextFrame, savedTimeScale, clock, pauseElapsed,
                 trackEntries>>
  /\ playbackState' = assignThroughGetter(playbackState, TRUE, FALSE)

\* a nextFrame() that restores the entry of every track, frozen or not
NextFrameEntriesUnfreezing ==
  [k \in DOMAIN trackEntries |->
     IF \E i \in DOMAIN tracks : i - 1 = k THEN 1 ELSE trackEntries[k]]

\* nextFrame(): the render entries after its loop, which sets to 1 the time
\* scale of the entry at the index of each track that has a runtime state
\* and is not frozen
NextFrameEntries ==
  [k \in DOMAIN trackEntries |->
     IF \E i \in DOMAIN tracks :
          /\ i - 1 = k
          /\ tracks[i].id \in DOMAIN trackStates
          /\ ~trackStates[tracks[i].id].isFrozen
     THEN 1 ELSE trackEntries[k]]

\* PlaybackController.nextFrame()
NextFrame ==
  /\ trackEntries' = IF ~isPlaying /\ ~isPaused THEN StartEntries(NextFrameEntries)
                     ELSE NextFrameEntries
  /\ IF ~isPlaying /\ ~isPaused
     THEN /\ StartBody
          /\ timeScale' = 1
          /\ pauseAfterNextFrame' = IF StartThrows THEN pauseAfterNextFrame ELSE TRUE
     ELSE IF isPaused
     THEN /\ ResumeBody
          /\ pauseAfterNextFrame' = TRUE
          /\ UNCHANGED <<tracks, elapsedTime, cycleStartTime, longestAnimationDuration,
                         trackStates, pauseElapsed>>
     ELSE /\ timeScale' = 1
          /\ pauseAfterNextFrame' = TRUE
          /\ UNCHANGED <<tracks, isPlaying, isPaused, rafId, lastTimestamp, elapsedTime,
                         cycleStartTime, longestAnimationDuration, trackStates, pending,
                         pauseElapsed>>
  /\ UNCHANGED <<nextTrackId, trackCounter, savedTimeScale, clock>>
  /\ playbackState' = assignThroughGetter(playbackState, TRUE, FALSE)

\* JavaScript values a caller can pass as a speed besides the finite numbers:
\* NaN, +Infinity and -Infinity are numbers to typeof; NotNumber stands for a
\* value of another type (null, undefined, a string)
NaN == -1000
PlusInfinity == 1000000
MinusInfinity == -1000000
NotNumber == -1001

\* PlaybackController.setPlaybackSpeed: 'Playback speed must be a positive
\* number' when `typeof speed !== 'number' || speed <= 0`; NaN <= 0 is false
SetPlaybackSpeedThrows(speed) ==
  IF speed = NotNumber THEN TRUE
  ELSE IF speed = NaN THEN FALSE
  ELSE speed <= 0

\* setPlaybackSpeed(speed): what it dispatches
SetPlaybackSpeedEvents(speed) ==
  IF SetPlaybackSpeedThrows(speed) THEN <<>>
  ELSE <<Ev("playback-speed-changed", 0, speed, speed)>>

\* PlaybackController.setPlaybackSpeed(speed)
SetPlaybackSpeed(speed) ==
  /\ IF SetPlaybackSpeedThrows(speed)
     THEN UNCHANGED timeScale
     ELSE timeScale' = speed
  /\ UNCHANGED <<modelVars, engineVars, hostVars, trackEntries>>
  /\ UNCHANGED playbackState

\* ------------------------------------------------------------------- the tick
\* a restart that leaves a frozen track frozen
RestartStateKeepingFrozen(track, st, currentTime) ==
  [st EXCEPT !.currentSlot = 0,
             !.slotStartTime = currentTime,
             !.isLooping = TRUE,
             !.animationDuration =
                IF HasSlot(track, 0) /\ ~isEmpty(getSlot(track, 0))
                THEN getAnimationDuration(getSlot(track, 0).animation)
                ELSE @]

\* PlaybackController._restartAllTracks: the runtime state of one track
RestartState(track, st, currentTime) ==
  [st EXCEPT !.currentSlot = 0,
             !.slotStartTime = currentTime,
             !.isLooping = TRUE,
             !.isFrozen = FALSE,
             !.animationDuration =
                IF HasSlot(track, 0) /\ ~isEmpty(getSlot(track, 0))
                THEN getAnimationDuration(getSlot(track, 0).animation)
                ELSE @]

\* PlaybackController._restartAllTracks: the events of one track; the detail's
\* previousSlot is read after currentSlot has been reset
RestartEvents(track) ==
  setCurrentSlotEvents(track, 0) \o <<Ev("playback-position-changed", track.id, 0, 0)>>

\* PlaybackController._restartAllTracks: longestDuration
RestartLongest(ts, states) ==
  SetMax({0} \cup
         {getAnimationDuration(getSlot(ts[i], 0).animation) :
            i \in {j \in DOMAIN ts : /\ ts[j].id \in DOMAIN states
                                     /\ HasSlot(ts[j], 0)
                                     /\ ~isEmpty(getSlot(ts[j], 0))}})

\* PlaybackController._restartAllTracks: the tracks afterwards
RestartTracks(ts, states) ==
  [i \in DOMAIN ts |->
     IF ts[i].id \in DOMAIN states THEN setCurrentSlot(ts[i], 0) ELSE ts[i]]

\* PlaybackController._restartAllTracks: the runtime states afterwards
RestartStates(ts, states, currentTime) ==
  [id \in DOMAIN states |->
     IF id \in TrackIds(ts)
     THEN RestartState(TrackOf(ts, id), states[id], currentTime)
     ELSE states[id]]

\* PlaybackController._restartAllTracks: everything it dispatches
RestartAllEvents(ts, states, currentTime) ==
  Flatten([i \in DOMAIN ts |->
             IF ts[i].id \in DOMAIN states THEN RestartEvents(ts[i]) ELSE <<>>])
    \o <<Ev("all-tracks-restarted", 0, currentTime, currentTime)>>

\* updateTrackPlayback: the track has no runtime state and gets one
LazilyInitialised(track, states) ==
  track.id \notin DOMAIN states /\ HasSlot(track, 0)

\* updateTrackPlayback: the current slot is empty and a later one is not
Advances(track, states) ==
  /\ track.id \in DOMAIN states
  /\ HasSlot(track, states[track.id].currentSlot)
  /\ isEmpty(getSlot(track, states[track.id].currentSlot))
  /\ findNextNonEmptySlot(track, states[track.id].currentSlot) # -1

\* updateTrackPlayback: the current slot's animation has completed
Freezes(track, states, globalTime) ==
  /\ track.id \in DOMAIN states
  /\ HasSlot(track, states[track.id].currentSlot)
  /\ ~isEmpty(getSlot(track, states[track.id].currentSlot))
  /\ globalTime - states[track.id].slotStartTime >= states[track.id].animationDuration
  /\ ~states[track.id].isFrozen

\* PlaybackController._advanceToSlot: the runtime state
AdvanceState(track, st, slotIndex, currentTime) ==
  [st EXCEPT !.currentSlot = slotIndex,
             !.slotStartTime = currentTime,
             !.animationDuration =
                IF HasSlot(track, slotIndex) /\ ~isEmpty(getSlot(track, slotIndex))
                THEN getAnimationDuration(getSlot(track, slotIndex).animation)
                ELSE @]

\* PlaybackController._advanceToSlot: the events
AdvanceEvents(track, st, slotIndex) ==
  setCurrentSlotEvents(track, slotIndex)
    \o <<Ev("playback-position-changed", track.id, st.currentSlot, slotIndex)>>
    \o (IF isEmpty(getSlot(track, slotIndex))
        THEN <<Ev("empty-slot-encountered", track.id, slotIndex, slotIndex)>>
        ELSE <<>>)

\* an advance that moves the runtime state and leaves the track model alone
UpdateTrackLeavingIndex(track, states) == track

\* PlaybackController.updateTrackPlayback: the track afterwards
UpdateTrack(track, states) ==
  IF Advances(track, states)
  THEN setCurrentSlot(track, findNextNonEmptySlot(track, states[track.id].currentSlot))
  ELSE track

\* the independent-looping scheduler: a track whose animation has completed
\* moves on to its own next slot instead of freezing
UpdateStateIndependentLooping(track, states, globalTime) ==
  IF LazilyInitialised(track, states) THEN LazyState(track, globalTime)
  ELSE IF Advances(track, states)
  THEN AdvanceState(track, states[track.id],
                    findNextNonEmptySlot(track, states[track.id].currentSlot), globalTime)
  ELSE IF Freezes(track, states, globalTime)
  THEN AdvanceState(track, states[track.id],
                    (states[track.id].currentSlot + 1) % Len(track.slots), globalTime)
  ELSE states[track.id]

\* PlaybackController.updateTrackPlayback: the track's runtime state afterwards
UpdateState(track, states, globalTime) ==
  IF LazilyInitialised(track, states) THEN LazyState(track, globalTime)
  ELSE IF Advances(track, states)
  THEN AdvanceState(track, states[track.id],
                    findNextNonEmptySlot(track, states[track.id].currentSlot), globalTime)
  ELSE IF Freezes(track, states, globalTime)
  THEN [states[track.id] EXCEPT !.isFrozen = TRUE]
  ELSE states[track.id]

\* PlaybackController.updateTrackPlayback: the events
UpdateEvents(track, states) ==
  IF Advances(track, states)
  THEN AdvanceEvents(track, states[track.id],
                     findNextNonEmptySlot(track, states[track.id].currentSlot))
  ELSE <<>>

\* tick(): the forEach over sequence.tracks, runtime states afterwards
UpdateAllStates(ts, states, globalTime) ==
  [id \in DOMAIN states \cup {ts[i].id : i \in {j \in DOMAIN ts : LazilyInitialised(ts[j], states)}} |->
     IF id \in TrackIds(ts) THEN UpdateState(TrackOf(ts, id), states, globalTime)
     ELSE states[id]]

\* tick(): deltaTime; a lastTimestamp of null or 0 is falsy
TickDelta(dt) ==
  IF lastTimestamp = Null \/ lastTimestamp = 0 THEN 0 ELSE (clock + dt) - lastTimestamp

\* tick(): the time scale applied, 1 when the rendering time scale is 0
TickScale == IF timeScale = 0 THEN 1 ELSE timeScale

\* tick(): elapsedTime after the accumulation
TickElapsed(dt) == elapsedTime + TickDelta(dt) * TickScale

\* tick(): the longest animation of the cycle has completed; a comparison
\* with an undefined longestAnimationDuration is false
TickRestarts(dt) ==
  /\ longestAnimationDuration # Null
  /\ TickElapsed(dt) - cycleStartTime >= longestAnimationDuration

\* tick(): tracks and runtime states before the per-track updates
TickTracksR(dt) ==
  IF TickRestarts(dt) THEN RestartTracks(tracks, trackStates) ELSE tracks

TickStatesR(dt) ==
  IF TickRestarts(dt) THEN RestartStates(tracks, trackStates, TickElapsed(dt))
  ELSE trackStates

\* PlaybackController._restartAllTracks: the render entries afterwards; a
\* track with a runtime state and a non-empty slot 0 has the entry at its
\* index set to time scale 1 and its clip played again
RECURSIVE RestartEntriesFrom(_, _, _, _)
RestartEntriesFrom(i, ts, states, entries) ==
  IF i > Len(ts) THEN entries
  ELSE RestartEntriesFrom(i + 1, ts, states,
         IF /\ ts[i].id \in DOMAIN states
            /\ HasSlot(ts[i], 0)
            /\ ~isEmpty(getSlot(ts[i], 0))
         THEN playSlotAnimation(setEntryTimeScale(entries, i - 1, 1), getSlot(ts[i], 0))
         ELSE entries)

\* updateTrackPlayback over the tracks in order: the render entries
\* afterwards; a track that gets its runtime state plays a non-empty slot 0,
\* a track that freezes has the entry at its index set to time scale 0, and
\* _advanceToSlot plays nothing (it passes the slot where the index belongs)
RECURSIVE UpdateEntriesFrom(_, _, _, _, _)
UpdateEntriesFrom(i, ts, states, globalTime, entries) ==
  IF i > Len(ts) THEN entries
  ELSE UpdateEntriesFrom(i + 1, ts, states, globalTime,
         IF LazilyInitialised(ts[i], states)
         THEN (IF isEmpty(getSlot(ts[i], 0)) THEN entries
               ELSE playSlotAnimation(entries, getSlot(ts[i], 0)))
         ELSE IF Freezes(ts[i], states, globalTime)
         THEN setEntryTimeScale(entries, i - 1, 0)
         ELSE entries)

\* tick(): the render entries afterwards
TickEntries(dt) ==
  UpdateEntriesFrom(1, TickTracksR(dt), TickStatesR(dt), TickElapsed(dt),
                    IF TickRestarts(dt)
                    THEN RestartEntriesFrom(1, tracks, trackStates, trackEntries)
                    ELSE trackEntries)

\* tick(): the pause-after-this-frame branch is taken and pause() acts
TickPauses == pauseAfterNextFrame /\ PauseRuns

\* tick(): what it dispatches
TickEvents(dt) ==
  (IF TickRestarts(dt) THEN RestartAllEvents(tracks, trackStates, TickElapsed(dt)) ELSE <<>>)
    \o Flatten([i \in DOMAIN tracks |-> UpdateEvents(TickTracksR(dt)[i], TickStatesR(dt))])
    \o (IF TickPauses THEN <<Ev("playback-paused", 0, 0, 0)>> ELSE <<>>)

\* PlaybackController.tick(timestamp), run by the host for a pending callback;
\* the frame arrives dt after the previous one
Tick(dt) ==
  /\ \E id \in pending :
       LET fired == pending \ {id}
       IN /\ clock' = clock + dt
          /\ lastTimestamp' = clock + dt
          /\ elapsedTime' = TickElapsed(dt)
          /\ cycleStartTime' = IF TickRestarts(dt) THEN TickElapsed(dt) ELSE cycleStartTime
          /\ longestAnimationDuration' =
               IF TickRestarts(dt) THEN RestartLongest(tracks, trackStates)
               ELSE longestAnimationDuration
          /\ tracks' = [i \in DOMAIN tracks |-> UpdateTrack(TickTracksR(dt)[i], TickStatesR(dt))]
          /\ trackStates' = UpdateAllStates(TickTracksR(dt), TickStatesR(dt), TickElapsed(dt))
          /\ trackEntries' = TickEntries(dt)
          /\ pauseAfterNextFrame' = FALSE
          /\ IF pauseAfterNextFrame
             THEN IF PauseRuns
                  THEN /\ PauseBody(fired)
                       /\ pauseElapsed' = TickElapsed(dt)
                  ELSE /\ pending' = fired
                       /\ pauseElapsed' = Null
                       /\ UNCHANGED <<isPlaying, isPaused, rafId, savedTimeScale, timeScale>>
             ELSE /\ IF isPlaying
                     THEN /\ rafId' = requestAnimationFrame(fired, rafId)
                          /\ pending' = fired \cup {requestAnimationFrame(fired, rafId)}
                     ELSE /\ pending' = fired
                          /\ UNCHANGED rafId
                  /\ pauseElapsed' = Null
                  /\ UNCHANGED <<isPlaying, isPaused, savedTimeScale, timeScale>>
  /\ UNCHANGED <<nextTrackId, trackCounter>>
  /\ playbackState' = assignThroughGetter(playbackState, FALSE, TRUE)

\* ------------------------------------------------------------ specification
Next ==
  \/ AddTrack
  \/ \E i \in 1..MaxTracks : RemoveTrack(i)
  \/ \E i \in 1..MaxTracks, a \in Anims \cup {NoAnim}, x \in 0..MaxSlots : AddSlot(i, a, x)
  \/ \E i \in 1..MaxTracks, x \in 0..MaxSlots : RemoveSlot(i, x)
  \/ \E i \in 1..MaxTracks, x \in 0..MaxSlots, y \in 0..MaxSlots : MoveSlot(i, x, y)
  \/ \E i \in 1..MaxTracks, x \in 0..MaxSlots, a \in Anims \cup {NoAnim} : SetAnimation(i, x, a)
  \/ Start
  \/ Stop
  \/ Pause
  \/ Resume
  \/ NextFrame
  \/ \E s \in Speeds \cup BadSpeeds : SetPlaybackSpeed(s)
  \/ \E dt \in Deltas : clock + dt <= MaxClock /\ Tick(dt)

Spec == Init /\ [][Next]_vars

\* the transport controls over a sequence that grows: tracks are added, and a
\* track without slot is given its first one
NextTransport ==
  \/ AddTrack
  \/ \E i \in DOMAIN tracks : Len(tracks[i].slots) = 0 /\ AddSlot(i, "walk", 0)
  \/ Start
  \/ Stop
  \/ Pause
  \/ Resume
  \/ NextFrame
  \/ \E s \in Speeds \cup BadSpeeds : SetPlaybackSpeed(s)
  \/ \E dt \in Deltas : clock + dt <= MaxClock /\ Tick(dt)

SpecTransport == Init /\ [][NextTransport]_vars

\* playback at the default speed while the first track is edited in every
\* way and the others only grow
NextEdit ==
  \/ AddTrack
  \/ \E i \in 1..MaxTracks : RemoveTrack(i)
  \/ \E i \in DOMAIN tracks : AddSlot(i, "walk", Len(tracks[i].slots))
  \/ \E a \in Anims \cup {NoAnim}, x \in 0..MaxSlots : AddSlot(1, a, x)
  \/ \E x \in 0..MaxSlots : RemoveSlot(1, x)
  \/ \E x \in 0..MaxSlots, y \in 0..MaxSlots : MoveSlot(1, x, y)
  \/ \E x \in 0..MaxSlots, a \in Anims \cup {NoAnim} : SetAnimation(1, x, a)
  \/ Start
  \/ Stop
  \/ \E dt \in FrameDeltas : clock + dt <= MaxClock /\ Tick(dt)

SpecEdit == Init /\ [][NextEdit]_vars

\* the indices a caller may pass to a track: every position and one beyond
\* each end
SlotIndices == -1 .. MaxSlots

\* the tracks a caller edits: the first two of the sequence
Edited == {i \in DOMAIN tracks : i <= 2}

\* tracks are created, and the first two edited in every way, while the
\* engine is idle
NextTrack ==
  \/ AddTrack
  \/ \E i \in Edited, a \in Anims \cup {NoAnim}, x \in SlotIndices : AddSlot(i, a, x)
  \/ \E i \in Edited, x \in SlotIndices : RemoveSlot(i, x)
  \/ \E i \in Edited, x \in SlotIndices, y \in SlotIndices : MoveSlot(i, x, y)
  \/ \E i \in Edited, x \in SlotIndices, a \in Anims \cup {NoAnim} : SetAnimation(i, x, a)
  \/ \E i \in Edited, x \in SlotIndices : SetCurrentSlot(i, x)

SpecTrack == Init /\ [][NextTrack]_vars

\* slots are created, assigned, played and stopped while the engine is idle
NextSlot ==
  \/ AddTrack
  \/ \E i \in Edited, a \in Anims \cup {NoAnim} : AddSlot(i, a, Len(tracks[i].slots))
  \/ \E i \in Edited, x \in 0 .. MaxSlots - 1, a \in Anims \cup {NoAnim} : SlotSetAnimation(i, x, a)
  \/ \E i \in Edited, x \in 0 .. MaxSlots - 1 : SlotPlay(i, x)
  \/ \E i \in Edited, x \in 0 .. MaxSlots - 1 : SlotStop(i, x)

SpecSlot == Init /\ [][NextSlot]_vars

\* a name of MAX_NAME_LENGTH + 1 letters
LongName == [p \in 1 .. MAX_NAME_LENGTH + 1 |-> "a"]

\* the names a caller offers: a generated name spelled out, the same in lower
\* case and padded, the second generated name, fresh names of which two
\* differ by case only, and names the manager refuses (empty, blank, a lone
\* hyphen, too long)
NameInputs ==
  { autoName(1),
    <<" ", "t", "r", "a", "c", "k", " ", "1", " ">>,
    autoName(2),
    <<"A">>, <<"a">>, <<"k">>,
    <<>>, <<" ">>, <<"-">>, LongName }

\* tracks are created with and without a name, renamed and deleted
NextNames ==
  \/ AddTrack
  \/ \E n \in NameInputs : CreateTrack(n)
  \/ \E i \in 1 .. MaxTracks, n \in NameInputs : RenameTrack(i, n)
  \/ \E i \in 1 .. MaxTracks : DeleteTrack(i)

SpecNames == Init /\ [][NextNames]_vars

\* the host runs a registered frame callback, one frame period after the
\* previous frame
HostFrame == \E dt \in FrameDeltas : clock + dt <= MaxScenarioClock /\ Tick(dt)

\* a sequence is built, played, paused and resumed while the host delivers
\* frames
NextLive ==
  \/ AddTrack
  \/ \E i \in DOMAIN tracks, a \in Anims : Len(tracks[i].slots) = 0 /\ AddSlot(i, a, 0)
  \/ Start
  \/ Pause
  \/ Resume
  \/ HostFrame

\* requestAnimationFrame: a registered callback is eventually run
SpecLive == Init /\ [][NextLive]_vars /\ WF_vars(HostFrame)

\* tracks are created, filled from the end and removed while the engine is idle
NextSequence ==
  \/ AddTrack
  \/ \E i \in 1..MaxTracks : RemoveTrack(i)
  \/ \E i \in DOMAIN tracks, a \in Anims \cup {NoAnim} : AddSlot(i, a, Len(tracks[i].slots))

SpecSequence == Init /\ [][NextSequence]_vars

\* the clips offered to the tracks when the sequence may name an animation
\* the skeleton does not have
RenderAnims == {"walk", "jump"}

\* playback of tracks some of whose clips the rendering collaborator cannot
\* play: tracks are added and given their first slot before and during
\* playback, which is started and stopped
NextRender ==
  \/ AddTrack
  \/ \E i \in DOMAIN tracks, a \in RenderAnims :
       Len(tracks[i].slots) = 0 /\ AddSlot(i, a, 0)
  \/ Start
  \/ Stop
  \/ \E dt \in Deltas : clock + dt <= MaxClock /\ Tick(dt)

SpecRender == Init /\ [][NextRender]_vars

\* the values offered to the speed selector: valid speeds, 0 and a negative
\* number, and the values that are not finite numbers
SpeedInputs == Speeds \cup BadSpeeds \cup {NaN, PlusInfinity, MinusInfinity, NotNumber}

\* the speed selector used with any value, before playback, during playback
\* and while paused; no frame is delivered
NextSpeed ==
  \/ AddTrack
  \/ \E i \in DOMAIN tracks : Len(tracks[i].slots) = 0 /\ AddSlot(i, "walk", 0)
  \/ Start
  \/ Stop
  \/ Pause
  \/ \E s \in SpeedInputs : SetPlaybackSpeed(s)

SpecSpeed == Init /\ [][NextSpeed]_vars

\* Scenario A: Track1 = [walk, run] and Track2 = [idle], built with addTrack
\* and addSlot before the engine is first started, then played at speed 1
ScenarioATracks ==
  << [id |-> 1, name |-> autoName(1),
      slots |-> <<AnimationSlot(0, "walk"), AnimationSlot(1, "run")>>,
      currentSlotIndex |-> 0],
     [id |-> 2, name |-> autoName(2),
      slots |-> <<AnimationSlot(0, "idle")>>, currentSlotIndex |-> 0] >>

InitScenarioA ==
  /\ tracks = ScenarioATracks
  /\ nextTrackId = 3
  /\ trackCounter = 2
  /\ isPlaying = FALSE
  /\ isPaused = FALSE
  /\ rafId = Null
  /\ lastTimestamp = Null
  /\ elapsedTime = 0
  /\ cycleStartTime = Null
  /\ longestAnimationDuration = Null
  /\ trackStates = <<>>
  /\ pauseAfterNextFrame = FALSE
  /\ savedTimeScale = Null
  /\ timeScale = 1
  /\ trackEntries = NoEntries
  /\ playbackState = [isPlaying |-> FALSE, isPaused |-> FALSE]
  /\ pending = {}
  /\ clock = 0
  /\ pauseElapsed = Null

NextScenarioA ==
  \/ Start
  \/ Pause
  \/ Resume
  \/ \E dt \in ScenarioDeltas : clock + dt <= MaxScenarioClock /\ Tick(dt)

SpecScenarioA == InitScenarioA /\ [][NextScenarioA]_vars

\* Scenario A played while its first track is edited
NextScenarioEdit ==
  \/ \E a \in Anims \cup {NoAnim}, x \in 0..MaxSlots : AddSlot(1, a, x)
  \/ \E x \in 0..MaxSlots : RemoveSlot(1, x)
  \/ \E x \in 0..MaxSlots, y \in 0..MaxSlots : MoveSlot(1, x, y)
  \/ \E x \in 0..MaxSlots, a \in Anims \cup {NoAnim} : SetAnimation(1, x, a)
  \/ Start
  \/ Stop
  \/ \E dt \in FrameDeltas : clock + dt <= MaxScenarioClock /\ Tick(dt)

SpecScenarioEdit == InitScenarioA /\ [][NextScenarioEdit]_vars

\* Scenario A driven from the transport controls: play, stop, pause, resume,
\* single-frame stepping and the speed selector
NextScenarioStep ==
  \/ Start
  \/ Stop
  \/ Pause
  \/ Resume
  \/ NextFrame
  \/ \E s \in Speeds \cup BadSpeeds : SetPlaybackSpeed(s)
  \/ \E dt \in FrameDeltas : clock + dt <= MaxScenarioClock /\ Tick(dt)

SpecScenarioStep == InitScenarioA /\ [][NextScenarioStep]_vars

\* ------------------------------------------------------------------- claims
\* the engine state of section 4.4, from the two flags
EngineState ==
  IF isPlaying /\ isPaused THEN "Invalid"
  ELSE IF isPlaying THEN "Playing"
  ELSE IF isPaused THEN "Paused"
  ELSE "Stopped"

\* a step that is a run of tick(), for the frame the host's clock moves to
TickStep == Tick(clock' - clock)

\* a step that is a run of tick() in which the ensemble restarts
RestartStep == TickStep /\ TickRestarts(clock' - clock)

CountType(evs, type) == Cardinality({k \in DOMAIN evs : evs[k].type = type})

\* C1: at most one tick callback is pending at any moment; exactly one is
\* pending whenever the engine is Playing, none when it is Stopped or Paused.
C1_OneTickPending ==
  /\ Cardinality(pending) <= 1
  /\ EngineState = "Playing" => Cardinality(pending) = 1
  /\ EngineState \in {"Stopped", "Paused"} => pending = {}

\* C2: stop() and pause() cancel the pending tick within the call, so no
\* callback is registered when they return (the pause() a stepping tick makes
\* included), and the only callback that can ever fire is the one the engine
\* currently holds in rafId: a callback scheduled before a stop() or pause()
\* never runs.
C2_StopPauseCancel ==
  [][ /\ (StopRuns /\ Stop) => pending' = {}
      /\ (PauseRuns /\ Pause) => pending' = {}
      /\ (TickStep /\ TickPauses) => pending' = {}
      /\ TickStep => pending = {rafId} ]_vars

\* C2 witness: the engine plays again after a pause() that cancelled a tick,
\* with the one callback resume() scheduled
C2_Witness ==
  /\ isPlaying
  /\ savedTimeScale # Null
  /\ lastTimestamp = Null
  /\ elapsedTime > 0
  /\ pending = {rafId}

\* C3: Paused is entered only from Playing, Playing is entered only from
\* Stopped or Paused, and isPlaying and isPaused are never both true.
C3_StateEdges ==
  [][ /\ EngineState' # "Invalid"
      /\ (EngineState' = "Paused" /\ EngineState # "Paused") => EngineState = "Playing"
      /\ (EngineState' = "Playing" /\ EngineState # "Playing")
            => EngineState \in {"Stopped", "Paused"} ]_vars

\* C3 witness: the engine is Paused, after ticks that ran while it was Playing
C3_Witness ==
  /\ EngineState = "Paused"
  /\ lastTimestamp # Null
  /\ pauseElapsed # Null
  /\ pauseElapsed > 0

\* C4 as stated: in a tick whose cycleTime has reached
\* longestAnimationDuration, cycleStartTime becomes elapsedTime,
\* all-tracks-restarted is dispatched exactly once, and at the end of the tick
\* every track with runtime state is at slot 0 (runtime currentSlot and
\* Track.currentSlotIndex), not frozen, with slotStartTime = elapsedTime.
C4_RestartAtSlotZero ==
  [][ RestartStep =>
          /\ cycleStartTime' = elapsedTime'
          /\ CountType(TickEvents(clock' - clock), "all-tracks-restarted") = 1
          /\ \A i \in DOMAIN tracks' :
               tracks'[i].id \in DOMAIN trackStates' =>
                 /\ trackStates'[tracks'[i].id].currentSlot = 0
                 /\ tracks'[i].currentSlotIndex = 0
                 /\ ~trackStates'[tracks'[i].id].isFrozen
                 /\ trackStates'[tracks'[i].id].slotStartTime = elapsedTime' ]_vars

\* the slot a track is on at the end of a tick that restarts the ensemble:
\* slot 0, or the nearest non-empty slot when slot 0 is empty
RestartTarget(track) ==
  IF HasSlot(track, 0) /\ isEmpty(getSlot(track, 0)) /\ findNextNonEmptySlot(track, 0) # -1
  THEN findNextNonEmptySlot(track, 0)
  ELSE 0

\* C4 amended: in a tick whose cycleTime has reached
\* longestAnimationDuration, cycleStartTime becomes elapsedTime,
\* all-tracks-restarted is dispatched exactly once, and every track that had
\* runtime state is un-frozen with slotStartTime = elapsedTime and ends the
\* tick at slot 0 or, when its slot 0 is empty and a later slot is not, at
\* its nearest non-empty slot (runtime currentSlot and Track.currentSlotIndex
\* agree).
C4_RestartInTick ==
  [][ RestartStep =>
          /\ cycleStartTime' = elapsedTime'
          /\ CountType(TickEvents(clock' - clock), "all-tracks-restarted") = 1
          /\ \A i \in DOMAIN tracks :
               tracks[i].id \in DOMAIN trackStates =>
                 /\ trackStates'[tracks[i].id].currentSlot = RestartTarget(tracks[i])
                 /\ tracks'[i].currentSlotIndex = RestartTarget(tracks[i])
                 /\ ~trackStates'[tracks[i].id].isFrozen
                 /\ trackStates'[tracks[i].id].slotStartTime = elapsedTime' ]_vars

\* C4 witness: a restart has just re-aligned two tracks, one of which had
\* finished early
C4_Witness ==
  /\ isPlaying
  /\ cycleStartTime = elapsedTime
  /\ elapsedTime > 0
  /\ \A i \in DOMAIN tracks :
       /\ tracks[i].id \in DOMAIN trackStates
       /\ trackStates[tracks[i].id].isLooping
       /\ ~trackStates[tracks[i].id].isFrozen
       /\ trackStates[tracks[i].id].slotStartTime = elapsedTime
  /\ \E i \in DOMAIN tracks :
       /\ trackStates[tracks[i].id].currentSlot = 0
       /\ trackStates[tracks[i].id].animationDuration < longestAnimationDuration

\* the slot a runtime state points at exists and is empty
OnEmptySlot(track, st) ==
  HasSlot(track, st.currentSlot) /\ isEmpty(getSlot(track, st.currentSlot))

\* C5 as stated: a tick in which the animation of a track's current slot has
\* finished freezes the track where it is, and from then until the next
\* ensemble restart (or stop()) its runtime currentSlot and
\* Track.currentSlotIndex do not change and isFrozen stays true.
C5_FrozenHoldsAlways ==
  [][ \A i \in DOMAIN tracks :
        ( /\ isPlaying /\ isPlaying'
          /\ tracks[i].id \in DOMAIN trackStates
          /\ tracks[i].id \in DOMAIN trackStates'
          /\ tracks[i].id \in TrackIds(tracks')
          /\ (trackStates[tracks[i].id].isFrozen \/ Freezes(tracks[i], trackStates, elapsedTime'))
          /\ ~RestartStep ) =>
            /\ (Freezes(tracks[i], trackStates, elapsedTime') /\ TickStep) =>
                  /\ trackStates'[tracks[i].id].isFrozen
                  /\ trackStates'[tracks[i].id].currentSlot = trackStates[tracks[i].id].currentSlot
            /\ trackStates[tracks[i].id].isFrozen =>
                  /\ trackStates'[tracks[i].id].isFrozen
                  /\ trackStates'[tracks[i].id].currentSlot = trackStates[tracks[i].id].currentSlot
                  /\ TrackOf(tracks', tracks[i].id).currentSlotIndex = tracks[i].currentSlotIndex ]_vars

\* C5 amended: a tick in which the animation of a track's current slot has
\* finished freezes the track where it is, and from then until the next
\* ensemble restart (or stop()) isFrozen stays true and, as long as the slot
\* the track is on is not empty, its runtime currentSlot and
\* Track.currentSlotIndex do not change.
C5_FrozenHolds ==
  [][ \A i \in DOMAIN tracks :
        ( /\ isPlaying /\ isPlaying'
          /\ tracks[i].id \in DOMAIN trackStates
          /\ tracks[i].id \in DOMAIN trackStates'
          /\ tracks[i].id \in TrackIds(tracks')
          /\ (trackStates[tracks[i].id].isFrozen \/ Freezes(tracks[i], trackStates, elapsedTime'))
          /\ ~RestartStep ) =>
            /\ (Freezes(tracks[i], trackStates, elapsedTime') /\ TickStep) =>
                  /\ trackStates'[tracks[i].id].isFrozen
                  /\ trackStates'[tracks[i].id].currentSlot = trackStates[tracks[i].id].currentSlot
            /\ trackStates[tracks[i].id].isFrozen =>
                  trackStates'[tracks[i].id].isFrozen
            /\ (trackStates[tracks[i].id].isFrozen /\ ~OnEmptySlot(tracks[i], trackStates[tracks[i].id])) =>
                  /\ trackStates'[tracks[i].id].currentSlot = trackStates[tracks[i].id].currentSlot
                  /\ TrackOf(tracks', tracks[i].id).currentSlotIndex = tracks[i].currentSlotIndex ]_vars

\* C5 witness: a track that finished early has been held on its non-empty
\* slot by a later tick while the longest animation still plays
C5_Witness ==
  /\ isPlaying
  /\ \E i \in DOMAIN tracks :
       /\ tracks[i].id \in DOMAIN trackStates
       /\ trackStates[tracks[i].id].isFrozen
       /\ ~OnEmptySlot(tracks[i], trackStates[tracks[i].id])
       /\ HasSlot(tracks[i], trackStates[tracks[i].id].currentSlot)
       /\ elapsedTime - trackStates[tracks[i].id].slotStartTime
            > trackStates[tracks[i].id].animationDuration
       /\ elapsedTime - cycleStartTime < longestAnimationDuration

\* C6: in Scenario A longestAnimationDuration is 2000, after the tick that
\* brings elapsedTime to 1500 Track1 is on slot 1 (run) and frozen, and after
\* the tick that brings it to 2000 both tracks have restarted at slot 0.
C6_ScenarioA ==
  (isPlaying /\ lastTimestamp # Null /\ 1 \in DOMAIN trackStates /\ 2 \in DOMAIN trackStates) =>
    /\ longestAnimationDuration = 2000
    /\ elapsedTime = 1500 =>
         /\ trackStates[1].currentSlot = 1
         /\ tracks[1].currentSlotIndex = 1
         /\ trackStates[1].isFrozen
    /\ elapsedTime = 2000 =>
         /\ cycleStartTime = 2000
         /\ \A id \in {1, 2} :
              /\ trackStates[id].currentSlot = 0
              /\ ~trackStates[id].isFrozen
              /\ trackStates[id].slotStartTime = 2000

\* C7: while the engine is Playing every runtime-state entry belongs to a
\* track of the sequence, so the map is never larger than the track list.
C7_StatesPruned ==
  isPlaying =>
    /\ DOMAIN trackStates \subseteq TrackIds(tracks)
    /\ Cardinality(DOMAIN trackStates) <= Len(tracks)

\* C8: while the engine is Playing, the runtime currentSlot of every track
\* with runtime state is a valid index of the track's slots.
C8_CurrentSlotInRange ==
  isPlaying =>
    \A i \in DOMAIN tracks :
      tracks[i].id \in DOMAIN trackStates =>
        /\ 0 <= trackStates[tracks[i].id].currentSlot
        /\ trackStates[tracks[i].id].currentSlot < Len(tracks[i].slots)

\* C9: a track that has no runtime state when a tick runs while the engine is
\* Playing and not stepping a single frame (a track added since start()) has
\* one after the tick, at slot 0 with slotStartTime = the tick's elapsedTime
\* and isFrozen false, and the engine is still Playing.
C9_AddedTrackJoins ==
  [][ (isPlaying /\ ~pauseAfterNextFrame /\ TickStep) =>
        \A i \in DOMAIN tracks :
          tracks[i].id \notin DOMAIN trackStates =>
            /\ tracks[i].id \in DOMAIN trackStates'
            /\ trackStates'[tracks[i].id].currentSlot = 0
            /\ trackStates'[tracks[i].id].slotStartTime = elapsedTime'
            /\ ~trackStates'[tracks[i].id].isFrozen
            /\ isPlaying' ]_vars

\* C10: the first tick after a resume() leaves elapsedTime at the value it
\* had when the engine was paused: the wall-clock time spent Paused is not
\* added.
C10_PauseGapExcluded ==
  [][ (TickStep /\ pauseElapsed # Null) => elapsedTime' = pauseElapsed ]_vars

\* C10 witness: the first tick after a resume() has run, later than the
\* pause() by a whole frame, and elapsedTime is what it was at the pause()
C10_Witness ==
  /\ isPlaying
  /\ pauseElapsed = Null
  /\ savedTimeScale # Null
  /\ lastTimestamp # Null
  /\ elapsedTime > 0
  /\ clock - elapsedTime >= 1000

\* getPlaybackSpeed(): the global time-scale, or 1 when it is 0
getPlaybackSpeed == IF timeScale = 0 THEN 1 ELSE timeScale

\* C11: every tick after the first one that follows a start() or resume()
\* adds (its timestamp - the previous tick's timestamp) x the playback speed
\* to elapsedTime, whatever the previous timestamp was (0 included).
C11_TickAddsDelta ==
  [][ (TickStep /\ lastTimestamp # Null) =>
        elapsedTime' = elapsedTime + (clock' - lastTimestamp) * getPlaybackSpeed
    ]_vars

\* C12: nextFrame() called while Stopped on a sequence with tracks, or while
\* Paused, leaves the engine Playing with exactly one tick pending and the
\* single-frame pause armed; the tick that then runs leaves the engine Paused
\* with no tick pending.
C12_NextFrameOneTick ==
  [][ /\ (NextFrame /\ (isPaused \/ (~isPlaying /\ Len(tracks) > 0))) =>
           /\ isPlaying' /\ ~isPaused'
           /\ Cardinality(pending') = 1
           /\ pauseAfterNextFrame'
      /\ (TickStep /\ pauseAfterNextFrame /\ isPlaying) =>
           /\ isPaused' /\ ~isPlaying'
           /\ pending' = {}
           /\ ~pauseAfterNextFrame'
    ]_vars

\* C13 as stated: after nextFrame() the global time scale is 1 and so is
\* the time scale of the render entry of every track, frozen tracks included.
C13_AllTimeScalesOne ==
  [][ NextFrame =>
        /\ timeScale' = 1
        /\ \A i \in DOMAIN tracks :
             (i - 1) \in DOMAIN trackEntries' => trackEntries'[i - 1] = 1 ]_vars

\* C13: nextFrame() leaves the global time scale positive -- 1 when called
\* while Stopped or Playing, the time scale pause() saved (1 if that is 0)
\* when called while Paused -- and sets to 1 the time scale of the render
\* entry of each track that has a runtime state and is not frozen; called
\* while Playing or Paused it leaves the entry of every other track,
\* a frozen one included, as it was.
C13_NextFrameTimeScales ==
  [][ NextFrame =>
        /\ timeScale' > 0
        /\ timeScale' = IF isPaused
                        THEN (IF savedTimeScale = Null \/ savedTimeScale = 0
                              THEN 1 ELSE savedTimeScale)
                        ELSE 1
        /\ \A i \in DOMAIN tracks :
             (i - 1) \in DOMAIN trackEntries =>
               /\ (i - 1) \in DOMAIN trackEntries'
               /\ IF /\ tracks[i].id \in DOMAIN trackStates
                     /\ ~trackStates[tracks[i].id].isFrozen
                  THEN trackEntries'[i - 1] = 1
                  ELSE (isPlaying \/ isPaused) =>
                         trackEntries'[i - 1] = trackEntries[i - 1] ]_vars

\* C13 witness: nextFrame() has armed the single-frame pause on resuming a
\* paused engine whose speed was 2, with a track frozen and the render entry
\* at its index still at time scale 0
C13_Witness ==
  /\ isPlaying
  /\ pauseAfterNextFrame
  /\ timeScale = 2
  /\ savedTimeScale = 2
  /\ \E i \in DOMAIN tracks :
       /\ tracks[i].id \in DOMAIN trackStates
       /\ trackStates[tracks[i].id].isFrozen
       /\ (i - 1) \in DOMAIN trackEntries
       /\ trackEntries[i - 1] = 0

\* C14: after a start() that acts (engine not Playing, at least one track)
\* the engine is Playing, every track is at currentSlotIndex 0 and has a
\* runtime state at slot 0, not frozen, the map holds exactly one entry per
\* track, and elapsedTime = 0, cycleStartTime = 0, lastTimestamp = null.
C14_StartPostcondition ==
  [][ (Start /\ ~isPlaying /\ Len(tracks) > 0) =>
        /\ isPlaying' /\ ~isPaused'
        /\ \A i \in DOMAIN tracks' :
             /\ tracks'[i].currentSlotIndex = 0
             /\ tracks'[i].id \in DOMAIN trackStates'
             /\ trackStates'[tracks'[i].id].currentSlot = 0
             /\ ~trackStates'[tracks'[i].id].isFrozen
        /\ DOMAIN trackStates' = TrackIds(tracks')
        /\ elapsedTime' = 0
        /\ cycleStartTime' = 0
        /\ lastTimestamp' = Null ]_vars

\* C15: after a stop() called while Playing or Paused the engine is Stopped,
\* no tick is pending, every track's currentSlotIndex is 0, the runtime-state
\* map is empty, and elapsedTime = 0, cycleStartTime = 0, lastTimestamp = null.
C15_StopPostcondition ==
  [][ (Stop /\ (isPlaying \/ isPaused)) =>
        /\ ~isPlaying' /\ ~isPaused'
        /\ pending' = {}
        /\ \A i \in DOMAIN tracks' : tracks'[i].currentSlotIndex = 0
        /\ DOMAIN trackStates' = {}
        /\ elapsedTime' = 0
        /\ cycleStartTime' = 0
        /\ lastTimestamp' = Null ]_vars

\* C16: a pause() that acts changes no runtime-state record, no track
\* position and no clock field, and remembers the rendering time scale; the
\* resume() that follows returns the engine to Playing with the records,
\* positions, elapsedTime, cycleStartTime and longestAnimationDuration
\* unchanged and the rendering time scale the engine had before the pause().
C16_PauseResumeRestores ==
  [][ /\ (Pause /\ isPlaying /\ ~isPaused) =>
           /\ isPaused' /\ ~isPlaying'
           /\ UNCHANGED <<tracks, trackStates, elapsedTime, cycleStartTime,
                          longestAnimationDuration, lastTimestamp>>
           /\ savedTimeScale' = timeScale
      /\ (Resume /\ isPaused) =>
           /\ isPlaying' /\ ~isPaused'
           /\ UNCHANGED <<tracks, trackStates, elapsedTime, cycleStartTime,
                          longestAnimationDuration>>
           /\ timeScale' = savedTimeScale ]_vars

\* C17: start() while Playing or on a sequence without track, stop() while
\* Stopped, pause() while not Playing and resume() while not Paused throw
\* nothing, dispatch nothing and change nothing: no variable of the engine,
\* of the sequence or of the host (pending ticks included) differs afterwards.
C17_RedundantCallsNoOp ==
  [][ /\ (isPlaying \/ Len(tracks) = 0) => (~StartThrows /\ StartEvents = <<>>)
      /\ (~isPlaying /\ ~isPaused) => (~StopThrows /\ StopEvents = <<>>)
      /\ (EngineState # "Playing") => PauseEvents = <<>>
      /\ ~isPaused => ResumeEvents = <<>>
      /\ (Start /\ (isPlaying \/ Len(tracks) = 0)) => UNCHANGED vars
      /\ (Stop /\ ~isPlaying /\ ~isPaused) => UNCHANGED vars
      /\ (Pause /\ EngineState # "Playing") => UNCHANGED vars
      /\ (Resume /\ ~isPaused) => UNCHANGED vars ]_vars

\* C17 witness: the engine is Playing with its tick pending after a pause and
\* a resume, where start() and resume() are the redundant calls
C17_Witness ==
  /\ EngineState = "Playing"
  /\ Cardinality(pending) = 1
  /\ savedTimeScale # Null
  /\ DOMAIN trackStates # {}
  /\ ~pauseAfterNextFrame

\* C18: neither start() nor stop() ever throws, whatever the sequence holds,
\* a freshly added track without slot included.
C18_StartStopNeverThrow == ~StartThrows /\ ~StopThrows

\* every slot of the track is empty
AllEmpty(track) == \A k \in DOMAIN track.slots : isEmpty(track.slots[k])

\* C19 as stated: while Playing, no tick changes the currentSlotIndex of a
\* track whose every slot is empty.
C19_EmptyTrackParked ==
  [][ (TickStep /\ isPlaying) =>
        \A i \in DOMAIN tracks :
          AllEmpty(tracks[i]) =>
            tracks'[i].currentSlotIndex = tracks[i].currentSlotIndex ]_vars

\* C19: while Playing, a tick never advances a track whose every slot is
\* empty: its currentSlotIndex changes only when the tick restarts the
\* ensemble, which puts a track with runtime state back at slot 0, and
\* otherwise its runtime state is left as it is; in the same tick every other
\* track that is due gets its runtime state or is frozen, and unless the
\* tick is a single-frame step the next tick is scheduled.
C19_EmptyTrackNeverAdvances ==
  [][ (TickStep /\ isPlaying) =>
        \A i \in DOMAIN tracks :
          AllEmpty(tracks[i]) =>
            /\ tracks'[i].currentSlotIndex =
                 IF TickRestarts(clock' - clock) /\ tracks[i].id \in DOMAIN trackStates
                 THEN 0 ELSE tracks[i].currentSlotIndex
            /\ (tracks[i].id \in DOMAIN trackStates /\ ~TickRestarts(clock' - clock)) =>
                 trackStates'[tracks[i].id] = trackStates[tracks[i].id]
            /\ ~pauseAfterNextFrame => (isPlaying' /\ pending' # {})
            /\ \A j \in DOMAIN tracks \ {i} :
                 /\ LazilyInitialised(tracks[j], trackStates) =>
                      tracks[j].id \in DOMAIN trackStates'
                 /\ Freezes(TickTracksR(clock' - clock)[j], TickStatesR(clock' - clock),
                            elapsedTime') =>
                      trackStates'[tracks[j].id].isFrozen ]_vars

\* C19 witness: a track whose slots were all emptied while it stood at slot 1
\* has since been ticked past the duration recorded for that slot and is
\* still there, not frozen, and the next tick is pending
C19_Witness ==
  /\ isPlaying
  /\ pending # {}
  /\ lastTimestamp # Null
  /\ \E i \in DOMAIN tracks :
       /\ Len(tracks[i].slots) = 2
       /\ AllEmpty(tracks[i])
       /\ tracks[i].currentSlotIndex = 1
       /\ tracks[i].id \in DOMAIN trackStates
       /\ trackStates[tracks[i].id].currentSlot = 1
       /\ ~trackStates[tracks[i].id].isFrozen
       /\ trackStates[tracks[i].id].animationDuration = 500
       /\ elapsedTime - trackStates[tracks[i].id].slotStartTime >= 500

\* C20: while every track of the sequence is entirely empty, a tick of the
\* Playing engine dispatches no playback-position-changed, no
\* empty-slot-encountered and no all-tracks-restarted.
C20_NoEventsWhenAllEmpty ==
  [][ (TickStep /\ isPlaying /\ Len(tracks) > 0
         /\ \A i \in DOMAIN tracks : AllEmpty(tracks[i])) =>
        /\ CountType(TickEvents(clock' - clock), "playback-position-changed") = 0
        /\ CountType(TickEvents(clock' - clock), "empty-slot-encountered") = 0
        /\ CountType(TickEvents(clock' - clock), "all-tracks-restarted") = 0 ]_vars

\* PlaybackController._advanceToSlot: the clips it asks the rendering
\* collaborator to play. It calls _playSlotAnimation(track, slot): the slot
\* lands in the index parameter, the slot parameter is undefined, and
\* _playSlotAnimation returns at its first test, so nothing is played.
AdvancePlays(track, slotIndex) == <<>>

\* updateTrackPlayback: the clips it asks the rendering collaborator to play
UpdatePlays(track, states) ==
  IF LazilyInitialised(track, states)
  THEN (IF isEmpty(getSlot(track, 0)) THEN <<>> ELSE <<getSlot(track, 0).animation>>)
  ELSE IF Advances(track, states)
  THEN AdvancePlays(track, findNextNonEmptySlot(track, states[track.id].currentSlot))
  ELSE <<>>

\* the nearest non-empty slot after index from, in forward circular order
NearestNonEmpty(track, from) ==
  LET n == Len(track.slots)
      d == Min({k \in 1..n : ~isEmpty(getSlot(track, (from + k) % n))})
  IN (from + d) % n

\* C21: a tick that finds the current slot of a track empty while the track
\* has a non-empty slot moves the track to the nearest non-empty slot in
\* forward circular order: runtime currentSlot and currentSlotIndex become
\* that index, slotStartTime becomes elapsedTime, animationDuration becomes
\* that slot's duration, and the rendering collaborator is asked to play
\* that slot's animation.
C21_AdvanceToNearest ==
  [][ TickStep =>
        \A i \in DOMAIN tracks :
          LET tr == TickTracksR(clock' - clock)[i]
              st == TickStatesR(clock' - clock)
          IN (/\ tr.id \in DOMAIN st
              /\ HasSlot(tr, st[tr.id].currentSlot)
              /\ isEmpty(getSlot(tr, st[tr.id].currentSlot))
              /\ ~AllEmpty(tr)) =>
               LET n == NearestNonEmpty(tr, st[tr.id].currentSlot)
               IN /\ tracks'[i].currentSlotIndex = n
                  /\ trackStates'[tr.id].currentSlot = n
                  /\ trackStates'[tr.id].slotStartTime = elapsedTime'
                  /\ trackStates'[tr.id].animationDuration =
                       getAnimationDuration(getSlot(tr, n).animation)
                  /\ UpdatePlays(tr, st) = <<getSlot(tr, n).animation>> ]_vars

\* the duration of a track's slot 0, 0 when that slot is empty
SlotZeroDuration(track) == getAnimationDuration(getSlot(track, 0).animation)

\* C22: immediately after a start() that acts, and immediately after every
\* ensemble restart, the animationDuration of each runtime state is the
\* duration of its track's slot 0 (0 if that slot is empty) and
\* longestAnimationDuration is the maximum of those durations over the
\* tracks that have runtime state.
C22_DurationsOfSlotZero ==
  [][ /\ (Start /\ ~isPlaying /\ Len(tracks) > 0) =>
           /\ \A i \in DOMAIN tracks' :
                tracks'[i].id \in DOMAIN trackStates' =>
                  trackStates'[tracks'[i].id].animationDuration = SlotZeroDuration(tracks'[i])
           /\ longestAnimationDuration' =
                SetMax({0} \cup {trackStates'[id].animationDuration : id \in DOMAIN trackStates'})
      /\ RestartStep =>
           LET st == TickStatesR(clock' - clock)
               tr == TickTracksR(clock' - clock)
           IN /\ \A i \in DOMAIN tr :
                   tr[i].id \in DOMAIN st =>
                     st[tr[i].id].animationDuration = SlotZeroDuration(tr[i])
              /\ longestAnimationDuration' =
                   SetMax({0} \cup {st[id].animationDuration : id \in DOMAIN st}) ]_vars

\* the rendering collaborator can play slot 0 of the track
Playable(track) ==
  HasSlot(track, 0) /\ getSlot(track, 0).animation \in SkeletonAnimations

\* C23: an error thrown by the rendering collaborator when it is asked to
\* play a clip is contained. A start() that reaches every track gives each
\* of them its runtime state, plays the clips that can be played whatever
\* unplayable clip comes before them, and schedules the tick; a tick gives
\* every track that joins its runtime state, completes an ensemble restart
\* for every track, plays the clips that can be played, and schedules the
\* next tick.
C23_RenderFailureContained ==
  [][ /\ (Start /\ ~isPlaying /\ Len(tracks) > 0 /\ ~StartThrows) =>
           /\ isPlaying'
           /\ pending' # {}
           /\ elapsedTime' = 0
           /\ \A i \in DOMAIN tracks :
                /\ tracks[i].id \in DOMAIN trackStates'
                /\ trackStates'[tracks[i].id].animationDuration = SlotZeroDuration(tracks[i])
           /\ (\E i \in DOMAIN tracks : Playable(tracks[i])) =>
                (0 \in DOMAIN trackEntries' /\ trackEntries'[0] = 1)
      /\ (TickStep /\ isPlaying /\ ~pauseAfterNextFrame) =>
           /\ isPlaying'
           /\ pending' # {}
           /\ \A i \in DOMAIN tracks :
                LazilyInitialised(tracks[i], trackStates) =>
                  /\ tracks[i].id \in DOMAIN trackStates'
                  /\ trackStates'[tracks[i].id].slotStartTime = elapsedTime'
           /\ (\E i \in DOMAIN tracks :
                 LazilyInitialised(tracks[i], trackStates) /\ Playable(tracks[i])) =>
                (0 \in DOMAIN trackEntries' /\ trackEntries'[0] = 1)
           /\ TickRestarts(clock' - clock) =>
                /\ cycleStartTime' = elapsedTime'
                /\ \A i \in DOMAIN tracks :
                     tracks[i].id \in DOMAIN trackStates =>
                       /\ trackStates'[tracks[i].id].currentSlot = 0
                       /\ trackStates'[tracks[i].id].slotStartTime = elapsedTime'
                       /\ ~trackStates'[tracks[i].id].isFrozen
                /\ (\E i \in DOMAIN tracks :
                      tracks[i].id \in DOMAIN trackStates /\ Playable(tracks[i])) =>
                     (0 \in DOMAIN trackEntries' /\ trackEntries'[0] = 1) ]_vars

\* C23 witness: start() has run on a sequence whose first track holds a clip
\* the collaborator cannot play and whose second track holds one it can:
\* both tracks have their runtime state, the second clip is playing and the
\* first tick is pending
C23_Witness ==
  /\ isPlaying
  /\ pending # {}
  /\ lastTimestamp = Null
  /\ Len(tracks) = 2
  /\ HasSlot(tracks[1], 0) /\ getSlot(tracks[1], 0).animation = "jump"
  /\ HasSlot(tracks[2], 0) /\ getSlot(tracks[2], 0).animation = "walk"
  /\ \A i \in DOMAIN tracks :
       /\ tracks[i].id \in DOMAIN trackStates
       /\ trackStates[tracks[i].id].slotStartTime = 0
  /\ 0 \in DOMAIN trackEntries /\ trackEntries[0] = 1

\* C24: the sequence's playbackState reflects the engine: after a start() or
\* a resume() that acts its isPlaying is true and its isPaused false, after
\* a pause() that acts isPaused is true and isPlaying false, after a stop()
\* that acts both are false.
C24_PlaybackStateReflectsEngine ==
  [][ /\ ((Start /\ ~isPlaying /\ Len(tracks) > 0) \/ (Resume /\ isPaused)) =>
           (playbackState'.isPlaying /\ ~playbackState'.isPaused)
      /\ (Pause /\ isPlaying /\ ~isPaused) =>
           (playbackState'.isPaused /\ ~playbackState'.isPlaying)
      /\ (Stop /\ (isPlaying \/ isPaused)) =>
           (~playbackState'.isPlaying /\ ~playbackState'.isPaused) ]_vars

\* the speeds that are not finite numbers greater than 0
InvalidSpeeds == {s \in SpeedInputs : s \notin Speeds}

\* C25: setPlaybackSpeed(speed) fails for every speed that is not a finite
\* number greater than 0, and the failed call dispatches nothing and leaves
\* the rendering time scale as it was.
C25_InvalidSpeedRejected ==
  [][ \A s \in InvalidSpeeds :
        SetPlaybackSpeed(s) =>
          /\ SetPlaybackSpeedThrows(s)
          /\ SetPlaybackSpeedEvents(s) = <<>>
          /\ timeScale' = timeScale ]_vars

\* C26: in every reachable state each track has at least one slot and a
\* currentSlotIndex that names one of its slots
C26_SlotsNonEmptyIndexInRange ==
  \A i \in DOMAIN tracks :
     /\ Len(tracks[i].slots) >= 1
     /\ 0 <= tracks[i].currentSlotIndex
     /\ tracks[i].currentSlotIndex < Len(tracks[i].slots)

\* C26, second case: once a track holds a slot, its currentSlotIndex names one
C26_IndexInRangeOnceFilled ==
  \A i \in DOMAIN tracks :
     Len(tracks[i].slots) >= 1 => tracks[i].currentSlotIndex < Len(tracks[i].slots)

\* C27: whatever addSlot, removeSlot and moveSlot calls were made on a track,
\* failed ones included, every slot's index is its position in the slot list
C27_IndexIsPosition ==
  \A i \in DOMAIN tracks :
     \A p \in DOMAIN tracks[i].slots : tracks[i].slots[p].index = p - 1

\* a track filled to capacity whose last slot was not the last one inserted:
\* the slots differ and the current slot is the last
C27_Witness ==
  \E i \in DOMAIN tracks :
     /\ Len(tracks[i].slots) = MaxSlots
     /\ tracks[i].slots[1].animation = "run"
     /\ tracks[i].slots[MaxSlots].animation = NoAnim
     /\ tracks[i].slots[MaxSlots].index = MaxSlots - 1

\* C28: a sequence holds at least one track in every reachable state (the
\* model has no clear())
C28_AtLeastOneTrack == Len(tracks) >= 1

\* C28, amended: a sequence that holds a track never loses its last one, and
\* removeTrack on the only remaining track changes neither the tracks nor the
\* playback state
C28_RemoveTrackKeepsOne ==
  [][/\ Len(tracks) >= 1 => Len(tracks') >= 1
     /\ \A i \in 1..MaxTracks :
          RemoveTrack(i) /\ Len(tracks) = 1 => UNCHANGED <<tracks, playbackState>>]_vars

\* the first of two tracks was removed and the second is now the only one
C28_Witness == Len(tracks) = 1 /\ tracks[1].id = 2 /\ Len(tracks[1].slots) >= 1

\* C29: moveSlot(i, i), setCurrentSlot(current index) and every failing track
\* operation (addSlot at capacity or outside [0, length]; removeSlot, moveSlot,
\* setCurrentSlot or setAnimation with an index out of range; removeSlot on a
\* single-slot track) cannot change the tracks and dispatch no event
C29_FailingOpsChangeNothing ==
  \A i \in DOMAIN tracks :
    LET T == tracks[i]
        n == Len(T.slots)
    IN  \A x \in SlotIndices :
          /\ (n >= MaxSlots \/ x < 0 \/ x > n) =>
               \A a \in Anims \cup {NoAnim} :
                  /\ ~ENABLED (AddSlot(i, a, x) /\ tracks' # tracks)
                  /\ AddSlotEvents(T, x) = <<>>
          /\ (n = 1 \/ x < 0 \/ x >= n) =>
               /\ ~ENABLED (RemoveSlot(i, x) /\ tracks' # tracks)
               /\ RemoveSlotEvents(T, x) = <<>>
          /\ \A y \in SlotIndices :
               (x = y \/ x < 0 \/ x >= n \/ y < 0 \/ y >= n) =>
                  /\ ~ENABLED (MoveSlot(i, x, y) /\ tracks' # tracks)
                  /\ MoveSlotEvents(T, x, y) = <<>>
          /\ (x < 0 \/ x >= n) =>
               \A a \in Anims \cup {NoAnim} :
                  /\ ~ENABLED (SetAnimation(i, x, a) /\ tracks' # tracks)
                  /\ SetAnimationEvents(T, x, a) = <<>>
          /\ (x = T.currentSlotIndex \/ x < 0 \/ x >= n) =>
               /\ ~ENABLED (SetCurrentSlot(i, x) /\ tracks' # tracks)
               /\ SetCurrentSlotEvents(T, x) = <<>>

\* one track is full with its last slot current, another holds a single slot:
\* every kind of refused or idle call can be made
C29_Witness ==
  \E i \in DOMAIN tracks, j \in DOMAIN tracks :
     /\ Len(tracks[i].slots) = MaxSlots
     /\ tracks[i].currentSlotIndex = MaxSlots - 1
     /\ Len(tracks[j].slots) = 1

\* C30: on any track, an addSlot(x, i) that succeeds is undone by the
\* removeSlot(i) that follows: the removal succeeds and the slots, their
\* order and their indices are those before the insertion
C30_AddThenRemoveRestores ==
  \A t \in DOMAIN tracks, i \in SlotIndices, x \in Anims \cup {NoAnim} :
     ~AddSlotThrows(tracks[t], i) =>
        LET added == addSlot(tracks[t], x, i)
        IN  /\ ~RemoveSlotThrows(added, i)
            /\ removeSlot(added, i) = tracks[t]

\* C30 on the tracks that hold a slot already
C30_AddThenRemoveRestoresFilled ==
  \A t \in DOMAIN tracks, i \in SlotIndices, x \in Anims \cup {NoAnim} :
     Len(tracks[t].slots) >= 1 /\ ~AddSlotThrows(tracks[t], i) =>
        LET added == addSlot(tracks[t], x, i)
        IN  /\ ~RemoveSlotThrows(added, i)
            /\ removeSlot(added, i) = tracks[t]

\* C31: a playing slot holds an animation; play() on an empty slot changes
\* nothing and starts nothing; setAnimation on a playing slot stops it, and
\* announces the stop, before the animation changes
C31_PlayingImpliesNonEmpty ==
  \A i \in DOMAIN tracks : \A p \in DOMAIN tracks[i].slots :
     LET slot == tracks[i].slots[p]
     IN  /\ slot.isPlaying => ~isEmpty(slot)
         /\ isEmpty(slot) =>
              /\ ~ENABLED (SlotPlay(i, p - 1) /\ tracks' # tracks)
              /\ slotPlayEvents(slot) = <<>>
         /\ slot.isPlaying =>
              \A a \in Anims \cup {NoAnim} :
                 /\ ~slotSetAnimation(slot, a).isPlaying
                 /\ slotSetAnimation(slot, a).animation = a
                 /\ Head(slotSetAnimationEvents(slot, a)).type = "playback-stopped"

\* a full track whose first slot plays and whose last slot is empty, beside
\* a slot that holds an animation and does not play
C31_Witness ==
  \E i \in DOMAIN tracks, j \in DOMAIN tracks :
     /\ Len(tracks[i].slots) = MaxSlots
     /\ tracks[i].slots[1].isPlaying
     /\ isEmpty(tracks[i].slots[MaxSlots])
     /\ Len(tracks[j].slots) >= 1
     /\ ~isEmpty(tracks[j].slots[1]) /\ ~tracks[j].slots[1].isPlaying

\* C32: whatever createTrack, renameTrack and deleteTrack calls were made, the
\* track names are pairwise distinct ignoring case, trimmed, non-empty and at
\* most 50 characters long
C32_NamesDistinctAndValid ==
  /\ \A i \in DOMAIN tracks, j \in DOMAIN tracks :
        i # j => toLowerCase(tracks[i].name) # toLowerCase(tracks[j].name)
  /\ \A i \in DOMAIN tracks :
        /\ trim(tracks[i].name) = tracks[i].name
        /\ tracks[i].name # <<>>
        /\ Len(tracks[i].name) <= MAX_NAME_LENGTH

\* C32 without distinctness: every name is trimmed, non-empty and short enough
C32_NamesWellFormed ==
  \A i \in DOMAIN tracks :
     /\ trim(tracks[i].name) = tracks[i].name
     /\ tracks[i].name # <<>>
     /\ Len(tracks[i].name) <= MAX_NAME_LENGTH

\* C33: the pause-after-frame flag never outlives the tick that follows
\* nextFrame(): it is not armed while the engine is stopped, and an ordinary
\* start() leaves the engine with the flag down, so that its first tick does
\* not pause
C33_FlagConsumedByNextTick ==
  [][/\ (~isPlaying' /\ ~isPaused') => ~pauseAfterNextFrame'
     /\ (Start /\ StartRuns /\ ~StartThrows) => ~pauseAfterNextFrame']_vars

\* C33, the part about start() alone
C33_StartNotPaused ==
  [][(Start /\ StartRuns /\ ~StartThrows) => ~pauseAfterNextFrame']_vars

\* C34: the factor a tick applies is the speed of the last successful
\* setPlaybackSpeed: between two Playing states only a successful
\* setPlaybackSpeed changes it, and a speed chosen while Paused (the time
\* scale is then no longer 0) is the one in force after resume() or
\* nextFrame()
C34_SpeedSurvivesTransport ==
  [][/\ (isPlaying /\ isPlaying' /\ TickScale' # TickScale) =>
           \E s \in Speeds : SetPlaybackSpeed(s)
     /\ (isPaused /\ isPlaying' /\ timeScale # 0) => TickScale' = timeScale]_vars

\* C34 for nextFrame() alone, called while Playing
C34_NextFrameKeepsSpeed ==
  [][(isPlaying /\ NextFrame) => TickScale' = TickScale]_vars

\* C34 for resume() alone, after a setPlaybackSpeed made while Paused
C34_ResumeKeepsSpeed ==
  [][(isPaused /\ timeScale # 0 /\ Resume) => TickScale' = timeScale]_vars

\* C35: while the engine is Playing the rendering time scale is strictly
\* positive, and while it is Paused the time scale is 0
C35_TimeScaleFollowsState ==
  /\ isPlaying => timeScale > 0
  /\ isPaused => timeScale = 0

\* C35, first half: rendering is never left frozen while Playing
C35_PlayingNotFrozen == isPlaying => timeScale > 0

\* C35, second half: rendering stands still while Paused
C35_PausedFrozen == isPaused => timeScale = 0

\* C36: after every tick that leaves the engine Playing,
\* longestAnimationDuration is at least the animationDuration of every track
\* whose runtime state stands on a non-empty slot
C36_LongestCoversEveryTrack ==
  (isPlaying /\ lastTimestamp # Null /\ longestAnimationDuration # Null) =>
     \A i \in DOMAIN tracks :
        (/\ tracks[i].id \in DOMAIN trackStates
         /\ HasSlot(tracks[i], trackStates[tracks[i].id].currentSlot)
         /\ ~isEmpty(getSlot(tracks[i], trackStates[tracks[i].id].currentSlot)))
        => longestAnimationDuration >= trackStates[tracks[i].id].animationDuration

\* C37: every playback-position-changed the engine dispatches in a tick carries
\* as previousSlot the slot the track's runtime state held before the change
\* (before the restart of that tick, if there was one, for a restart's event;
\* after it for an advance's) and as currentSlot the slot it holds after it
C37_PositionEventPayload ==
  [][\A dt \in Deltas \cup FrameDeltas \cup ScenarioDeltas :
        Tick(dt) =>
          /\ TickRestarts(dt) =>
               \A i \in DOMAIN tracks :
                  tracks[i].id \in DOMAIN trackStates =>
                     \E k \in DOMAIN RestartEvents(tracks[i]) :
                        LET e == RestartEvents(tracks[i])[k]
                        IN  /\ e.type = "playback-position-changed"
                            /\ e.prev = trackStates[tracks[i].id].currentSlot
                            /\ e.cur = TickStatesR(dt)[tracks[i].id].currentSlot
          /\ \A i \in DOMAIN tracks :
                Advances(TickTracksR(dt)[i], TickStatesR(dt)) =>
                   \E k \in DOMAIN UpdateEvents(TickTracksR(dt)[i], TickStatesR(dt)) :
                      LET e == UpdateEvents(TickTracksR(dt)[i], TickStatesR(dt))[k]
                      IN  /\ e.type = "playback-position-changed"
                          /\ e.prev = TickStatesR(dt)[tracks[i].id].currentSlot
                          /\ e.cur = trackStates'[tracks[i].id].currentSlot]_vars

\* C37 for the advances from an empty slot alone
C37_AdvancePayload ==
  [][\A dt \in Deltas \cup FrameDeltas \cup ScenarioDeltas :
        Tick(dt) =>
          \A i \in DOMAIN tracks :
             Advances(TickTracksR(dt)[i], TickStatesR(dt)) =>
                \E k \in DOMAIN UpdateEvents(TickTracksR(dt)[i], TickStatesR(dt)) :
                   LET e == UpdateEvents(TickTracksR(dt)[i], TickStatesR(dt))[k]
                   IN  /\ e.type = "playback-position-changed"
                       /\ e.prev = TickStatesR(dt)[tracks[i].id].currentSlot
                       /\ e.cur = trackStates'[tracks[i].id].currentSlot]_vars

\* the latest clock from which two full cycles of the longest clip still fit
\* before the host's last frame
LiveHorizon == MaxScenarioClock - 2000

\* the elapsed times a run can show up to the horizon: whole frame periods
LiveTimes == {n \in 0 .. LiveHorizon : \E d \in FrameDeltas : n % d = 0}

C38_RestartsAfterCleanStart ==
  \A id \in 1 .. MaxTrackIds :
     (/\ isPlaying /\ pending # {} /\ clock <= LiveHorizon
      /\ longestAnimationDuration # Null
      /\ id \in DOMAIN trackStates /\ trackStates[id].isFrozen)
        ~> (~isPlaying \/ id \notin DOMAIN trackStates \/ ~trackStates[id].isFrozen)

\* C39: while the engine is Playing or Paused and nobody outside it calls
\* setCurrentSlot, each track's currentSlotIndex is the currentSlot of its
\* runtime state
C39_IndexFollowsRuntimeState ==
  (isPlaying \/ isPaused) =>
     \A i \in DOMAIN tracks :
        tracks[i].id \in DOMAIN trackStates =>
           tracks[i].currentSlotIndex = trackStates[tracks[i].id].currentSlot

\* the engine plays and a track has advanced from an empty slot: its model
\* and its runtime state both stand on slot 1
C39_Witness ==
  /\ isPlaying
  /\ lastTimestamp # Null
  /\ \E i \in DOMAIN tracks :
        /\ tracks[i].id \in DOMAIN trackStates
        /\ trackStates[tracks[i].id].currentSlot = 1
        /\ tracks[i].currentSlotIndex = 1

\* C40: at the end of every tick cycleStartTime <= elapsedTime, every
\* runtime-state record has slotStartTime <= elapsedTime, and when
\* longestAnimationDuration > 0 the cycle is younger than it
C40_TimesOrderedAfterTick ==
  [][TickStep =>
       /\ cycleStartTime' <= elapsedTime'
       /\ \A id \in DOMAIN trackStates' : trackStates'[id].slotStartTime <= elapsedTime'
       /\ (longestAnimationDuration' # Null /\ longestAnimationDuration' > 0) =>
             elapsedTime' - cycleStartTime' < longestAnimationDuration']_vars

\* C40 without the runtime-state records
C40_CycleOrderedAfterTick ==
  [][TickStep =>
       /\ cycleStartTime' <= elapsedTime'
       /\ (longestAnimationDuration' # Null /\ longestAnimationDuration' > 0) =>
             elapsedTime' - cycleStartTime' < longestAnimationDuration']_vars

\* C38, the state from which no restart can come: the engine plays, a frame
\* is due, and the cycle check compares with an undefined duration, which
\* only start() and a restart could define
C38_CycleCheckDefined ==
  (isPlaying /\ pending # {}) => longestAnimationDuration # Null

====
